---- MODULE Spec2Model ----
(***************************************************************************)
(* Promo-code discovery and usage aggregation of the MyRace helper bot     *)
(* (telegram_bot.py): the listing crawl _collect_promo_view_links, the     *)
(* detail phase _gather_promos_with_usage and the report of checkpromos.   *)
(***************************************************************************)
EXTENDS Integers, Sequences, FiniteSets, TLC

(***************************************************************************)
(* Optional values: Python's None is the empty tuple, a present value x    *)
(* is the one-element tuple <<x>>.                                         *)
(***************************************************************************)
None == <<>>

Some(x) == <<x>>

Val(o) == o[1]

Max(a, b) == IF a >= b THEN a ELSE b

Reverse(s) == [i \in 1..Len(s) |-> s[Len(s) + 1 - i]]

(***************************************************************************)
(* Strings that the program orders, lower-cases or parses are sequences of *)
(* character codes (ASCII), so that these operations are computed.         *)
(***************************************************************************)
RECURSIVE StrLt(_, _)
StrLt(a, b) ==
    IF a = <<>> THEN b # <<>>
    ELSE IF b = <<>> THEN FALSE
    ELSE IF a[1] # b[1] THEN a[1] < b[1]
    ELSE StrLt(Tail(a), Tail(b))

LowerChar(c) == IF c >= 65 /\ c <= 90 THEN c + 32 ELSE c

Lower(s) == [i \in 1..Len(s) |-> LowerChar(s[i])]

UpperChar(c) == IF c >= 97 /\ c <= 122 THEN c - 32 ELSE c

Upper(s) == [i \in 1..Len(s) |-> UpperChar(s[i])]

IsDigit(c) == c >= 48 /\ c <= 57

\* str(n) of a non-negative integer
RECURSIVE Str(_)
Str(n) == IF n < 10 THEN <<48 + n>> ELSE Str(n \div 10) \o <<48 + (n % 10)>>

\* the strings "page", "a", "b", "1", "2" (form-field names and values),
\* "X", "Y" (anchor texts), "B2" (a code), "promo-" and cell texts
S_page == <<112, 97, 103, 101>>

S_a == <<97>>

S_b == <<98>>

S_1 == <<49>>

S_2 == <<50>>

S_X == <<88>>

S_Y == <<89>>

S_B2 == <<66, 50>>

S_promo_ == <<112, 114, 111, 109, 111, 45>>

S_30pct == <<51, 48, 37>>

S_50pct == <<53, 48, 37>>

S_5 == <<53>>

S_0 == <<48>>

S_minus2 == <<45, 50>>

S_dash == <<45>>

\* "MYRACE" and "Myrace" (the site's brand), "SALE-10" and "sale" (texts)
S_MYRACE == <<77, 89, 82, 65, 67, 69>>

S_Myrace == <<77, 121, 114, 97, 99, 101>>

S_SALE_10 == <<83, 65, 76, 69, 45, 49, 48>>

S_sale == <<115, 97, 108, 101>>

\* "All", the text of a filter's first option
S_All == <<65, 108, 108>>

(***************************************************************************)
(* Bounds of the model.                                                    *)
(***************************************************************************)
\* MYRACE_MAX_PAGES of the environment (the program's default is 30)
MaxPromoPages == 1

\* the site has the detail pages /promo/view/1 .. /promo/view/MaxViewId
MaxViewId == 2

\* responses of one crawl that carry detail links, pagination or directives
MaxRichPages == 2

\* length of the promo lists the report is checked on
MaxPromos == 2

\* usage labels that a detail page carries
MaxLabels == 2

\* number of input elements of the forms the payload synthesis is checked on
MaxFields == 2

(***************************************************************************)
(* URLs.  A URL is the record of the parts the program's string tests look *)
(* at: the path template, the race id in it, the number in the path (the   *)
(* promo id of /promo/view/<n>, the page of /coupons/pages/<n>/), and the  *)
(* query parameters type, status and page (page = 0: no page parameter).   *)
(***************************************************************************)
RACE_ID == "race_id"

OTHER_RACE == "other_race"

Url(path, race, n, type, status, page) ==
    [path |-> path, race |-> race, n |-> n, type |-> type, status |-> status, page |-> page]

\* PROMO_LIST_URLS, to be formatted with race_id
PROMO_LIST_URLS ==
    << "/promo/races/{race_id}/slots",
       "/promo/races/{race_id}",
       "/race/coupons/list/{race_id}",
       "/races/{race_id}/coupons/",
       "/races/{race_id}/coupons/items/" >>

PROMO_STATUS_FILTERS == <<"all">>

PROMO_TYPE_SLUGS == {"distance", "distance_with_bib"}

\* a test that takes only the /races/<id>/coupons/ templates for htmx listings
HasCoupons_races_only(path) ==
    path \in {"/races/{race_id}/coupons/", "/races/{race_id}/coupons/items/",
              "/races/{race_id}/coupons/pages/{page}/"}

\* "/coupons/" in base_url
HasCoupons(path) ==
    path \in {"/race/coupons/list/{race_id}", "/races/{race_id}/coupons/",
              "/races/{race_id}/coupons/items/", "/races/{race_id}/coupons/pages/{page}/"}

\* "/promo/races/" in href
HasPromoRaces(u) ==
    u.path \in {"/promo/races/{race_id}/slots", "/promo/races/{race_id}"}

\* "/promo/view/" in href
HasPromoView(u) == u.path = "/promo/view/{id}"

\* "/promo/" in url
HasPromo(u) == HasPromoRaces(u) \/ HasPromoView(u)

\* f"/races/{race_id}" in url
HasRacesOfRace(u) ==
    /\ u.race = RACE_ID
    /\ u.path \in {"/promo/races/{race_id}/slots", "/promo/races/{race_id}",
                   "/races/{race_id}/coupons/", "/races/{race_id}/coupons/items/",
                   "/races/{race_id}/coupons/pages/{page}/"}

\* "page=" in href or "type=" in href
HasPageOrType(u) == u.page > 0 \/ u.type # ""

ListUrl(path) == Url(path, RACE_ID, 0, "", "", 0)

WithPage(u, page) == [u EXCEPT !.page = page]

ViewUrl(id) == Url("/promo/view/{id}", "", id, "", "", 0)

(***************************************************************************)
(* Tasks.  A dict of form data is the sequence of its (key, value) pairs   *)
(* in insertion order, with distinct keys; None and {} are both <<>>.      *)
(***************************************************************************)
PairLt(p, q) == StrLt(p[1], q[1]) \/ (p[1] = q[1] /\ StrLt(p[2], q[2]))

RECURSIVE InsertPair(_, _)
InsertPair(p, s) ==
    IF s = <<>> THEN <<p>>
    ELSE IF PairLt(p, s[1]) THEN <<p>> \o s
    ELSE <<s[1]>> \o InsertPair(p, Tail(s))

\* sorted(pairs)
RECURSIVE SortPairs(_)
SortPairs(s) == IF s = <<>> THEN <<>> ELSE InsertPair(s[1], SortPairs(Tail(s)))

\* the slip that keeps the dict's insertion order in the task key
_normalize_data_unsorted(data) == IF data = <<>> THEN None ELSE data

_normalize_data(data) == IF data = <<>> THEN None ELSE SortPairs(data)

Task(method, url, payload) == [method |-> method, url |-> url, payload |-> payload]

\* an enqueue at the head of the queue (appendleft)
_enqueue_left(q, method, url, data) == <<Task(method, url, _normalize_data(data))>> \o q

\* queue.append((method.upper(), url, normalized)); every caller passes "GET" or "POST"
_enqueue(q, method, url, data) == Append(q, Task(method, url, _normalize_data(data)))

(***************************************************************************)
(* Frontier seeder: lines 1341-1371 of _collect_promo_view_links.          *)
(***************************************************************************)
RECURSIVE EnqueuePages(_, _, _)
EnqueuePages(q, u, page) ==
    IF page > MaxPromoPages THEN q
    ELSE EnqueuePages(_enqueue(q, "GET", WithPage(u, page), None), u, page + 1)

RECURSIVE EnqueuePostPages(_, _)
EnqueuePostPages(q, page) ==
    IF page > MaxPromoPages THEN q
    ELSE EnqueuePostPages(
            _enqueue(q, "POST", Url("/races/{race_id}/coupons/pages/{page}/", RACE_ID, page, "", "", 0), None),
            page + 1)

RECURSIVE EnqueuePostItems(_, _)
EnqueuePostItems(q, page) ==
    IF page > MaxPromoPages THEN q
    ELSE EnqueuePostItems(
            _enqueue(q, "POST", ListUrl("/races/{race_id}/coupons/items/"), <<<<S_page, Str(page)>>>>),
            page + 1)

\* the tasks the template loop appends, from template i on (lines 1341-1351)
RECURSIVE SeedTemplates(_)
SeedTemplates(i) ==
    IF i > Len(PROMO_LIST_URLS) THEN <<>>
    ELSE LET base_url == ListUrl(PROMO_LIST_URLS[i])
             q1 == EnqueuePages(_enqueue(<<>>, "GET", base_url, None), base_url, 1)
             q2 == IF HasCoupons(PROMO_LIST_URLS[i])
                   THEN EnqueuePostItems(EnqueuePostPages(q1, 1), 1)
                   ELSE q1
         IN  q2 \o SeedTemplates(i + 1)

\* the set `variants` of one slug, listed: 4 fixed variants, then 2 per status filter
RECURSIVE StatusVariants(_, _)
StatusVariants(slug, i) ==
    IF i > Len(PROMO_STATUS_FILTERS) THEN <<>>
    ELSE << Url("/promo/races/{race_id}/slots", RACE_ID, 0, slug, PROMO_STATUS_FILTERS[i], 0),
            Url("/races/{race_id}/coupons/items/", RACE_ID, 0, slug, PROMO_STATUS_FILTERS[i], 0) >>
         \o StatusVariants(slug, i + 1)

Variants(slug) ==
    << Url("/promo/races/{race_id}/slots", RACE_ID, 0, slug, "", 0),
       Url("/promo/races/{race_id}", RACE_ID, 0, slug, "", 0),
       Url("/races/{race_id}/coupons/", RACE_ID, 0, slug, "", 0),
       Url("/races/{race_id}/coupons/items/", RACE_ID, 0, slug, "", 0) >>
    \o StatusVariants(slug, 1)

\* Iteration orders of the sets PROMO_TYPE_SLUGS and variants (sets of str:
\* the order depends on the interpreter's hash seed); two of them are drawn.
HashSeeds == {"forward", "backward"}

SlugOrder(seed) ==
    IF seed = "forward" THEN <<"distance", "distance_with_bib">>
    ELSE <<"distance_with_bib", "distance">>

VariantOrder(seed, slug) == IF seed = "forward" THEN Variants(slug) ELSE Reverse(Variants(slug))

\* the tasks the inner loop appends for the variants vs of one slug
RECURSIVE SeedVariants(_, _)
SeedVariants(default_variants, vs) ==
    IF vs = <<>> THEN <<>>
    ELSE LET variant == Head(vs)
             q1 == IF variant \notin default_variants
                   THEN _enqueue(<<>>, "GET", variant, None)
                   ELSE <<>>
         IN  EnqueuePages(q1, variant, 1)
             \o SeedVariants(default_variants \cup {variant}, Tail(vs))

\* the tasks the slug loop appends; default_variants grows by every variant met
RECURSIVE SeedSlugs(_, _, _)
SeedSlugs(default_variants, seed, slugs) ==
    IF slugs = <<>> THEN <<>>
    ELSE LET vs == VariantOrder(seed, Head(slugs))
         IN  SeedVariants(default_variants, vs)
             \o SeedSlugs(default_variants \cup {vs[i] : i \in 1..Len(vs)}, seed, Tail(slugs))

\* the queue when the fetch loop starts
SeedQueue(seed) == SeedTemplates(1) \o SeedSlugs({}, seed, SlugOrder(seed))

\* a loop guard that is off by one
LoopCond_le(q, rc, mr) == q # <<>> /\ rc <= mr

\* while queue and request_count < max_requests
LoopCond(q, rc, mr) == q # <<>> /\ rc < mr

MIN_REQUESTS == 80

\* a budget of half the seed count
MaxRequests_half(q) == Len(q) \div 2

\* max(80, len(queue) * 2)
MaxRequests(q) == Max(MIN_REQUESTS, Len(q) * 2)

(***************************************************************************)
(* _extract_first_int: re.search(r"-?\d+", text), then int().              *)
(***************************************************************************)
\* the value of the digits of s from position i on, after the value acc
RECURSIVE DigitRun(_, _, _)
DigitRun(s, i, acc) ==
    IF i <= Len(s) /\ IsDigit(s[i]) THEN DigitRun(s, i + 1, 10 * acc + (s[i] - 48)) ELSE acc

RECURSIVE FirstIntFrom(_, _)
FirstIntFrom(s, i) ==
    IF i > Len(s) THEN None
    ELSE IF s[i] = 45 /\ i < Len(s) /\ IsDigit(s[i + 1]) THEN Some(0 - DigitRun(s, i + 1, 0))
    ELSE IF IsDigit(s[i]) THEN Some(DigitRun(s, i, 0))
    ELSE FirstIntFrom(s, i + 1)

\* text is an optional string
_extract_first_int(text) == IF text = None THEN None ELSE FirstIntFrom(Val(text), 1)

(***************************************************************************)
(* Fetched listing pages.  A page is what the extractor reads of it:       *)
(*   anchors    <a href>: the target, the stripped text (None when empty)  *)
(*              and the text of the third cell of the anchor's table row   *)
(*              (None: no row, or fewer than three cells);                 *)
(*   scripts    detail URLs that occur only in inline script or JSON;      *)
(*   directives elements with an hx-get / hx-post attribute: the attribute,*)
(*              its target, whether the element is a form, and the form's  *)
(*              inputs (name, type, checked, value) and selects (name and  *)
(*              options; an option has its value attribute, None when the  *)
(*              attribute is absent, its text and whether it is selected). *)
(***************************************************************************)
Anchor(href, text, cell) == [href |-> href, text |-> text, cell |-> cell]

Input(name, type, checked, value) ==
    [name |-> name, type |-> type, checked |-> checked, value |-> value]

Option(value, text, selected) == [value |-> value, text |-> text, selected |-> selected]

Select(name, options) == [name |-> name, options |-> options]

\* an element without select children
Directive(attr, url, is_form, inputs) ==
    [attr |-> attr, url |-> url, is_form |-> is_form, inputs |-> inputs, selects |-> <<>>]

\* a form with inputs and selects
FormDirective(attr, url, inputs, selects) ==
    [attr |-> attr, url |-> url, is_form |-> TRUE, inputs |-> inputs, selects |-> selects]

Page(anchors, scripts, directives) ==
    [anchors |-> anchors, scripts |-> scripts, directives |-> directives]

PromoLink(url, text, discount) == [url |-> url, text |-> text, discount |-> discount]

\* lines 1406-1425: the detail anchors of the page
RECURSIVE AnchorLinks(_)
AnchorLinks(anchors) ==
    IF anchors = <<>> THEN <<>>
    ELSE LET tag == Head(anchors)
         IN  (IF HasPromoView(tag.href)
              THEN <<PromoLink(tag.href, tag.text, _extract_first_int(tag.cell))>>
              ELSE <<>>) \o AnchorLinks(Tail(anchors))

RECURSIVE ViewHrefs(_)
ViewHrefs(anchors) ==
    IF anchors = <<>> THEN <<>>
    ELSE (IF HasPromoView(Head(anchors).href) THEN <<Head(anchors).href>> ELSE <<>>)
         \o ViewHrefs(Tail(anchors))

BareLinks(urls) == [i \in 1..Len(urls) |-> PromoLink(urls[i], None, None)]

\* lines 1434-1449, for one pattern_source: the /promo/view/<n> occurrences of
\* the text in document order, then the viewUrl-keyed values
RawLinks(page) ==
    BareLinks(ViewHrefs(page.anchors) \o page.scripts) \o BareLinks(page.scripts)

\* the list `found` of one response
Found(page) == AnchorLinks(page.anchors) \o RawLinks(page) \o RawLinks(page)

\* an extractor that follows no pagination anchor
EnqueueAnchors_none(q, anchors) == q

\* lines 1408-1414: the pagination and filter anchors, enqueued in document order
RECURSIVE EnqueueAnchors(_, _)
EnqueueAnchors(q, anchors) ==
    IF anchors = <<>> THEN q
    ELSE LET href == Head(anchors).href
             q1 == IF /\ ~HasPromoView(href)
                      /\ HasPageOrType(href)
                      /\ HasPromoRaces(href)
                      /\ HasRacesOfRace(href)
                   THEN _enqueue(q, "GET", href, None)
                   ELSE q
         IN  EnqueueAnchors(q1, Tail(anchors))

\* form_data[name] = value: a dict keeps the position of a key it already has
DictSet(d, k, v) ==
    IF \E i \in 1..Len(d) : d[i][1] = k
    THEN [i \in 1..Len(d) |-> IF d[i][1] = k THEN <<k, v>> ELSE d[i]]
    ELSE Append(d, <<k, v>>)

\* lines 1470-1478
RECURSIVE FormData(_, _)
FormData(d, inputs) ==
    IF inputs = <<>> THEN d
    ELSE LET input_tag == Head(inputs)
             d1 == IF input_tag.name = None THEN d
                   ELSE IF input_tag.type \in {"checkbox", "radio"} /\ ~input_tag.checked THEN d
                   ELSE DictSet(d, Val(input_tag.name), input_tag.value)
         IN  FormData(d1, Tail(inputs))

\* select.find("option", selected=True) or select.find("option"); None: no option
ChosenOption(options) ==
    IF options = <<>> THEN None
    ELSE IF \E i \in 1..Len(options) : options[i].selected
    THEN Some(options[CHOOSE i \in 1..Len(options) :
                        options[i].selected /\ \A j \in 1..(i - 1) : ~options[j].selected])
    ELSE Some(options[1])

\* option.get("value") or option.text: an empty value counts as no value
OptionValue(option) ==
    IF option.value # None /\ Val(option.value) # <<>> THEN Val(option.value) ELSE option.text

\* lines 1479-1485
RECURSIVE SelectData(_, _)
SelectData(d, selects) ==
    IF selects = <<>> THEN d
    ELSE LET select == Head(selects)
             option == ChosenOption(select.options)
             d1 == IF select.name = None THEN d
                   ELSE IF option = None THEN d
                   ELSE DictSet(d, Val(select.name), OptionValue(Val(option)))
         IN  SelectData(d1, Tail(selects))

\* lines 1460-1488 for one attribute
RECURSIVE EnqueueDirectives(_, _, _)
EnqueueDirectives(q, attr, tags) ==
    IF tags = <<>> THEN q
    ELSE LET tag == Head(tags)
             hx_method == IF attr \in {"hx-post", "data-hx-post"} THEN "POST" ELSE "GET"
             hx_data == IF hx_method = "POST" /\ tag.is_form
                        THEN SelectData(FormData(<<>>, tag.inputs), tag.selects)
                        ELSE None
             q1 == IF tag.attr # attr THEN q
                   ELSE IF ~HasRacesOfRace(tag.url) /\ ~HasPromo(tag.url) THEN q
                   ELSE _enqueue(q, hx_method, tag.url, hx_data)
         IN  EnqueueDirectives(q1, attr, Tail(tags))

hx_attrs == <<"hx-get", "hx-post", "data-hx-get", "data-hx-post">>

RECURSIVE EnqueueHx(_, _, _)
EnqueueHx(q, i, tags) ==
    IF i > Len(hx_attrs) THEN q
    ELSE EnqueueHx(EnqueueDirectives(q, hx_attrs[i], tags), i + 1, tags)

\* the queue after one response has been processed
EnqueueFromPage(q, page) == EnqueueHx(EnqueueAnchors(q, page.anchors), 1, page.directives)

(***************************************************************************)
(* Result merger: lines 1490-1508.                                         *)
(***************************************************************************)
\* a merge in which the later non-null value wins
MergeEntry_latest(prev, text, discount) ==
    [text |-> IF text # None THEN text ELSE prev.text,
     discount |-> IF discount # None THEN discount ELSE prev.discount]

\* new_text = prev_text or text; new_discount = prev_discount if not None else discount
MergeEntry(prev, text, discount) ==
    [text |-> IF prev.text # None THEN prev.text ELSE text,
     discount |-> IF prev.discount # None THEN prev.discount ELSE discount]

Results(order, map) == [order |-> order, map |-> map]

\* a merger that appends the URL to results_order at every discovery
RecordLink_append(r, f) ==
    IF ~HasRacesOfRace(f.url) /\ ~HasPromoView(f.url) THEN r
    ELSE IF f.url \notin DOMAIN r.map
    THEN Results(Append(r.order, f.url), (f.url :> [text |-> f.text, discount |-> f.discount]) @@ r.map)
    ELSE Results(Append(r.order, f.url), [r.map EXCEPT ![f.url] = MergeEntry(@, f.text, f.discount)])

RecordLink(r, f) ==
    IF ~HasRacesOfRace(f.url) /\ ~HasPromoView(f.url) THEN r
    ELSE IF f.url \notin DOMAIN r.map
    THEN Results(Append(r.order, f.url), (f.url :> [text |-> f.text, discount |-> f.discount]) @@ r.map)
    ELSE Results(r.order, [r.map EXCEPT ![f.url] = MergeEntry(@, f.text, f.discount)])

RECURSIVE RecordLinks(_, _)
RecordLinks(r, found) ==
    IF found = <<>> THEN r ELSE RecordLinks(RecordLink(r, Head(found)), Tail(found))

(***************************************************************************)
(* Detail pages and their extraction.  A detail page is what the two       *)
(* extractors read of it.  For the code: the stripped value of the first   *)
(* input with id "code" and of the first with name "code" (None: no such   *)
(* input), the text of the first anchor to a detail page in a text-strong  *)
(* cell of table.items (None: no such anchor), and the stripped text nodes *)
(* of the document in order.  For the usage: the places where a label of   *)
(* USAGE_LABELS is found, in the order of USAGE_LABELS, each with the      *)
(* texts that stand around the label's element: the last cell of its table *)
(* row (None: no row, or fewer than two cells), the dd that follows it     *)
(* when it is a dt, the dd that follows its dt ancestor, its following     *)
(* siblings in order, and the nearest following text with a digit.         *)
(***************************************************************************)
Occurrence(cell, dd, parent_dd, siblings, following) ==
    [cell |-> cell, dd |-> dd, parent_dd |-> parent_dd, siblings |-> siblings,
     following |-> following]

Html(id_code, name_code, table_anchor, strings, labels) ==
    [id_code |-> id_code, name_code |-> name_code, table_anchor |-> table_anchor,
     strings |-> strings, labels |-> labels]

\* a page with the code in its code field and the usage in the label's table row
DetailPage(code, usage_text) ==
    Html(code, None, None, <<>>,
         IF usage_text = None THEN <<>>
         ELSE <<Occurrence(usage_text, None, None, <<>>, None)>>)

\* re.fullmatch(r"[A-Z0-9-]{4,16}", stripped)
IsStrictCode(stripped) ==
    /\ Len(stripped) >= 4
    /\ Len(stripped) <= 16
    /\ \A i \in 1..Len(stripped) :
          \/ stripped[i] >= 65 /\ stripped[i] <= 90
          \/ IsDigit(stripped[i])
          \/ stripped[i] = 45

\* lines 1253-1261
RECURSIVE FirstCodeText(_)
FirstCodeText(strings) ==
    IF strings = <<>> THEN None
    ELSE LET stripped == Head(strings)
         IN  IF stripped = <<>> THEN FirstCodeText(Tail(strings))
             ELSE IF ~IsStrictCode(stripped) THEN FirstCodeText(Tail(strings))
             ELSE IF Upper(stripped) = S_MYRACE THEN FirstCodeText(Tail(strings))
             ELSE Some(stripped)

_extract_code_from_html(html) ==
    IF html.id_code # None /\ Val(html.id_code) # <<>> THEN html.id_code
    ELSE IF html.name_code # None /\ Val(html.name_code) # <<>> THEN html.name_code
    ELSE IF /\ html.table_anchor # None
            /\ Val(html.table_anchor) # <<>>
            /\ Upper(Val(html.table_anchor)) # S_MYRACE
    THEN html.table_anchor
    ELSE FirstCodeText(html.strings)

\* lines 1295-1304: the first following sibling whose text holds an integer
RECURSIVE SiblingValue(_)
SiblingValue(siblings) ==
    IF siblings = <<>> THEN None
    ELSE LET text == Head(siblings)
         IN  IF text = <<>> THEN SiblingValue(Tail(siblings))
             ELSE IF _extract_first_int(Some(text)) # None THEN _extract_first_int(Some(text))
             ELSE SiblingValue(Tail(siblings))

\* a resolution that tries the nearest following text first
LabelValue_nearest_first(occ) ==
    IF _extract_first_int(occ.following) # None THEN _extract_first_int(occ.following)
    ELSE IF _extract_first_int(occ.cell) # None THEN _extract_first_int(occ.cell)
    ELSE IF _extract_first_int(occ.dd) # None THEN _extract_first_int(occ.dd)
    ELSE IF _extract_first_int(occ.parent_dd) # None THEN _extract_first_int(occ.parent_dd)
    ELSE SiblingValue(occ.siblings)

\* lines 1274-1309: the value beside one label
LabelValue(occ) ==
    IF _extract_first_int(occ.cell) # None THEN _extract_first_int(occ.cell)
    ELSE IF _extract_first_int(occ.dd) # None THEN _extract_first_int(occ.dd)
    ELSE IF _extract_first_int(occ.parent_dd) # None THEN _extract_first_int(occ.parent_dd)
    ELSE IF SiblingValue(occ.siblings) # None THEN SiblingValue(occ.siblings)
    ELSE _extract_first_int(occ.following)

\* lines 1267-1310: the labels in turn
RECURSIVE UsageOfLabels(_)
UsageOfLabels(labels) ==
    IF labels = <<>> THEN None
    ELSE IF LabelValue(Head(labels)) # None THEN LabelValue(Head(labels))
    ELSE UsageOfLabels(Tail(labels))

_extract_usage_value(html) == UsageOfLabels(html.labels)

\* f"promo-{id}" for a /promo/view/<id> URL
_extract_code_from_url(url) == S_promo_ \o Str(url.n)

PromoUsageInfo(code, usage_left, url, discount_percent) ==
    [code |-> code, usage_left |-> usage_left, url |-> url, discount_percent |-> discount_percent]

\* a choice of code that takes only what the page gives
DetailCode_html_only(html, anchor_text, view_url) == _extract_code_from_html(html)

\* line 1563: _extract_code_from_html(html) or anchor_text or _extract_code_from_url(view_url)
DetailCode(html, anchor_text, view_url) ==
    IF _extract_code_from_html(html) # None THEN _extract_code_from_html(html)
    ELSE IF anchor_text # None THEN anchor_text
    ELSE Some(_extract_code_from_url(view_url))

(***************************************************************************)
(* The report of checkpromos: lines 776-859.                               *)
(***************************************************************************)
\* a filter that keeps only the entries with a truthy usage_left
Active_truthy(ps) ==
    SelectSeq(ps, LAMBDA info : info.usage_left # None /\ Val(info.usage_left) # 0)

\* [info for info in promos if info.usage_left is None or info.usage_left != 0]
Active(ps) ==
    SelectSeq(ps, LAMBDA info : info.usage_left = None \/ Val(info.usage_left) # 0)

\* (info.code or _extract_code_from_url(info.url)).strip(); codes carry no outer blanks
_code_text(info) == IF info.code # None THEN Val(info.code) ELSE _extract_code_from_url(info.url)

\* a key that ranks an unknown usage above every known one
_sort_key_unknown_first(info) ==
    << IF info.usage_left # None THEN Val(info.usage_left) ELSE 1000000, Lower(_code_text(info)) >>

_sort_key(info) ==
    << IF info.usage_left # None THEN Val(info.usage_left) ELSE -1, Lower(_code_text(info)) >>

\* the order of the key tuples (int, str)
KeyLt(k1, k2) == k1[1] < k2[1] \/ (k1[1] = k2[1] /\ StrLt(k1[2], k2[2]))

\* x is put before the first element whose key is smaller: equal keys keep their order
RECURSIVE InsertDesc(_, _)
InsertDesc(x, s) ==
    IF s = <<>> THEN <<x>>
    ELSE IF KeyLt(_sort_key(s[1]), _sort_key(x)) THEN <<x>> \o s
    ELSE <<s[1]>> \o InsertDesc(x, Tail(s))

\* sorted(active, key=_sort_key, reverse=True): descending and stable
RECURSIVE SortedActive(_)
SortedActive(s) ==
    IF s = <<>> THEN <<>>
    ELSE InsertDesc(s[Len(s)], SortedActive(SubSeq(s, 1, Len(s) - 1)))

\* sorted(ints, reverse=True) of a set of integers
RECURSIVE SortedDescInts(_)
SortedDescInts(S) ==
    IF S = {} THEN <<>>
    ELSE LET m == CHOOSE x \in S : \A y \in S : y <= x
         IN  <<m>> \o SortedDescInts(S \ {m})

\* an ordering that puts the unknown bucket first
OrderedKeys_unknown_first(sorted_active) ==
    LET keys == {sorted_active[i].discount_percent : i \in 1..Len(sorted_active)}
        known == SortedDescInts({Val(k) : k \in keys \ {None}})
    IN  (IF None \in keys THEN <<None>> ELSE <<>>) \o [i \in 1..Len(known) |-> Some(known[i])]

\* lines 812-818: the discount keys, descending, None last
OrderedKeys(sorted_active) ==
    LET keys == {sorted_active[i].discount_percent : i \in 1..Len(sorted_active)}
        known == SortedDescInts({Val(k) : k \in keys \ {None}})
    IN  [i \in 1..Len(known) |-> Some(known[i])] \o (IF None \in keys THEN <<None>> ELSE <<>>)

RECURSIVE SumUsage(_)
SumUsage(items) ==
    IF items = <<>> THEN 0
    ELSE (IF Head(items).usage_left # None THEN Val(Head(items).usage_left) ELSE 0)
         + SumUsage(Tail(items))

\* a grouping that puts an entry into every group whose discount it reaches
Group_at_least(key, sorted_active) ==
    LET group_items ==
            SelectSeq(sorted_active,
                      LAMBDA info : IF key = None \/ info.discount_percent = None
                                    THEN info.discount_percent = key
                                    ELSE Val(info.discount_percent) >= Val(key))
    IN  [key |-> key,
         items |-> group_items,
         count |-> Len(group_items),
         known_usage |-> SumUsage(group_items),
         unknown_count |-> Len(SelectSeq(group_items, LAMBDA info : info.usage_left = None))]

\* lines 833-855: one group of the report with its totals
Group(key, sorted_active) ==
    LET group_items == SelectSeq(sorted_active, LAMBDA info : info.discount_percent = key)
    IN  [key |-> key,
         items |-> group_items,
         count |-> Len(group_items),
         known_usage |-> SumUsage(group_items),
         unknown_count |-> Len(SelectSeq(group_items, LAMBDA info : info.usage_left = None))]

\* sum(entry[k] for entry in summary_totals), for one of the three columns
RECURSIVE SumField(_, _)
SumField(groups, field) ==
    IF groups = <<>> THEN 0 ELSE Head(groups)[field] + SumField(Tail(groups), field)

\* lines 857-859: the grand totals
Totals(groups) ==
    [total_known_usage |-> SumField(groups, "known_usage"),
     total_codes |-> SumField(groups, "count"),
     total_unknown |-> SumField(groups, "unknown_count")]

\* what checkpromos sends for the list promos
Report(ps) ==
    LET active == Active(ps)
        sorted_active == SortedActive(active)
        ordered_keys == OrderedKeys(sorted_active)
        groups == [i \in 1..Len(ordered_keys) |-> Group(ordered_keys[i], sorted_active)]
    IN  IF ps = <<>>
        THEN [status |-> "not_found", sorted_active |-> <<>>, groups |-> <<>>, totals |-> Totals(<<>>)]
        ELSE IF active = <<>>
        THEN [status |-> "exhausted", sorted_active |-> <<>>, groups |-> <<>>, totals |-> Totals(<<>>)]
        ELSE [status |-> "report", sorted_active |-> sorted_active, groups |-> groups,
              totals |-> Totals(groups)]

(***************************************************************************)
(* The site.  A site either answers sparsely (at most MaxRichPages of its  *)
(* responses carry links or directives) or endlessly (every response links *)
(* to a listing page not seen before); the requests to its dead paths      *)
(* fail (transport error or non-2xx).                                      *)
(***************************************************************************)
Sites ==
    { [kind |-> "sparse", dead |-> {}],
      [kind |-> "sparse", dead |-> {"/races/{race_id}/coupons/items/", "/race/coupons/list/{race_id}"}],
      [kind |-> "endless", dead |-> {}] }

ViewIds == 1..MaxViewId

EmptyPage == Page(<<>>, <<>>, <<>>)

\* text and third-cell text of the detail anchors the site renders
AnchorKinds ==
    { <<None, None>>, <<Some(S_X), None>>, <<Some(S_X), Some(S_30pct)>>, <<Some(S_Y), Some(S_50pct)>> }

LinkPages ==
    { Page(<<Anchor(ViewUrl(id), k[1], k[2])>>, <<>>, <<>>) : id \in ViewIds, k \in AnchorKinds }
    \cup { Page(<<>>, <<ViewUrl(id)>>, <<>>) : id \in ViewIds }

ItemsUrl == ListUrl("/races/{race_id}/coupons/items/")

DirectivePages ==
    { \* a filter form posted by htmx, its two fields rendered in either order
      Page(<<>>, <<>>, <<Directive("hx-post", ItemsUrl, TRUE,
            <<Input(Some(S_a), "text", FALSE, S_1), Input(Some(S_b), "text", FALSE, S_2)>>)>>),
      Page(<<>>, <<>>, <<Directive("hx-post", ItemsUrl, TRUE,
            <<Input(Some(S_b), "text", FALSE, S_2), Input(Some(S_a), "text", FALSE, S_1)>>)>>),
      \* the same form rendered twice on one page, above and below the list
      Page(<<>>, <<>>,
           << Directive("hx-post", ItemsUrl, TRUE,
                <<Input(Some(S_a), "text", FALSE, S_1), Input(Some(S_b), "text", FALSE, S_2)>>),
              Directive("hx-post", ItemsUrl, TRUE,
                <<Input(Some(S_b), "text", FALSE, S_2), Input(Some(S_a), "text", FALSE, S_1)>>) >>),
      \* a pager form that posts page=1, an unchecked box and a nameless field
      Page(<<>>, <<>>, <<Directive("hx-post", ItemsUrl, TRUE,
            <<Input(Some(S_page), "hidden", FALSE, S_1), Input(Some(S_a), "checkbox", FALSE, S_1),
              Input(None, "text", FALSE, S_2)>>)>>),
      \* pagination anchors: page 1 of the first listing, a page of another race,
      \* and the next page of the coupons listing
      Page(<<Anchor(WithPage(ListUrl("/promo/races/{race_id}/slots"), 1), None, None),
             Anchor(WithPage(Url("/promo/races/{race_id}/slots", OTHER_RACE, 0, "", "", 0), 2), None, None),
             Anchor(WithPage(ListUrl("/races/{race_id}/coupons/"), MaxPromoPages + 1), None, None)>>,
           <<>>,
           <<Directive("hx-get", Url("/about", "", 0, "", "", 0), FALSE, <<>>)>>) }

SparsePages(rich_left) ==
    {EmptyPage} \cup (IF rich_left > 0 THEN LinkPages \cup DirectivePages ELSE {})

\* the response to the n-th request of an endless site links to a fresh page
EndlessPage(n) ==
    Page(<<Anchor(WithPage(ListUrl("/promo/races/{race_id}/slots"), MaxPromoPages + n), None, None)>>,
         <<>>, <<>>)

(***************************************************************************)
(* Sites that render one htmx form: the first response carries the form,   *)
(* the later ones nothing.  The forms are made of at most MaxFields inputs *)
(* and at most one select.                                                 *)
(***************************************************************************)
InputKinds ==
    { Input(Some(S_a), "text", FALSE, S_1),
      Input(Some(S_a), "hidden", FALSE, S_0),
      Input(Some(S_a), "checkbox", TRUE, S_1),
      Input(Some(S_b), "checkbox", FALSE, S_1),
      Input(Some(S_b), "radio", TRUE, S_2),
      Input(None, "text", FALSE, S_2) }

SelectKinds ==
    { \* the second option is selected; no option is selected
      Select(Some(S_b), <<Option(Some(S_1), S_X, FALSE), Option(Some(S_2), S_Y, TRUE)>>),
      Select(Some(S_b), <<Option(Some(S_1), S_X, FALSE), Option(Some(S_2), S_Y, FALSE)>>),
      \* an option without a value attribute
      Select(Some(S_b), <<Option(None, S_X, FALSE)>>),
      \* a filter whose selected option "All" has the value ""
      Select(Some(S_b), <<Option(Some(<<>>), S_All, TRUE), Option(Some(S_1), S_X, FALSE)>>),
      \* a select without a name; a select without options
      Select(None, <<Option(Some(S_1), S_X, TRUE)>>),
      Select(Some(S_a), <<>>) }

Forms ==
    { FormDirective("hx-post", ItemsUrl, inputs, selects) :
        inputs \in UNION {[1..n -> InputKinds] : n \in 0..MaxFields},
        selects \in {<<>>} \cup {<<sel>> : sel \in SelectKinds} }

FormSites == { [kind |-> "form", dead |-> {}, page |-> Page(<<>>, <<>>, <<form>>)] : form \in Forms }

FormSitePages(s, rich) == IF rich > 0 THEN {s.page} ELSE {EmptyPage}

\* the detail pages of the site
DetailPages ==
    { DetailPage(None, None), DetailPage(Some(S_B2), Some(S_5)), DetailPage(None, Some(S_0)) }

(***************************************************************************)
(* The detail pages the extraction is checked on: pages that differ in     *)
(* what the code strategies find, and pages that differ in what stands     *)
(* around at most MaxLabels usage labels.                                  *)
(***************************************************************************)
CodePages ==
    { Html(id_code, name_code, table_anchor, strings, <<>>) :
        id_code \in {None, Some(<<>>), Some(S_B2)},
        name_code \in {None, Some(S_SALE_10)},
        table_anchor \in {None, Some(S_Myrace), Some(S_Y)},
        strings \in {<<>>, <<S_MYRACE, S_sale, S_SALE_10>>, <<<<>>, S_sale>>} }

Occurrences ==
    { Occurrence(cell, dd, parent_dd, siblings, following) :
        cell \in {None, Some(S_dash), Some(S_5)},
        dd \in {None, Some(S_dash), Some(S_0)},
        parent_dd \in {None, Some(S_30pct)},
        siblings \in {<<>>, <<S_dash>>, <<<<>>, S_dash, S_50pct>>},
        following \in {None, Some(S_minus2)} }

\* what stands around the labels that come after the first one
LaterOccurrences ==
    { Occurrence(Some(S_1), None, None, <<>>, None),
      Occurrence(None, None, None, <<>>, Some(S_2)) }

LabelLists ==
    {<<>>} \cup
    { <<occ>> \o rest :
        occ \in Occurrences,
        rest \in UNION {[1..n -> LaterOccurrences] : n \in 0..(MaxLabels - 1)} }

UsagePages == { Html(None, None, None, <<>>, labels) : labels \in LabelLists }

ExtractPages == CodePages \cup UsagePages

VARIABLES
    pc,             \* where _gather_promos_with_usage / checkpromos stands
    site,           \* the site crawled
    hash_seed,      \* the iteration order of the interpreter's str sets
    rich_left,      \* rich responses the site may still give
    queue,          \* deque of tasks
    visited,        \* set of task keys
    request_count,
    max_requests,
    results_order,
    results_map,
    links,          \* the list _collect_promo_view_links returns
    results,        \* the list _gather_promos_with_usage builds
    promos,         \* the list checkpromos receives
    report,         \* what checkpromos sends
    seed_count,     \* history: len(queue) when the loop starts
    issued,         \* history: the requests issued by the fetch loop, in order
    skipped,        \* history: the tasks popped and skipped as visited
    seen,           \* history: the detail URLs in the order of their first discovery
    detail_failed,  \* history: the detail URLs whose fetch failed
    progress_cb,    \* the progress sink passed to the crawl: "none" or "checkpromos"
    calls,          \* history: the arguments of the sink's invocations, in order
    progress_state, \* the sink's own state and what it has done
    sent,           \* history: the kinds of HTTP request made, with their headers
    popped,         \* history: the number of tasks taken from the queue
    frames,         \* the call frames of the worker threads that run the crawl
    loop,           \* the event loop, the worker and the progress message of one /checkpromos
    wizard,         \* context.user_data of one user of the promo wizard
    jar,            \* the cookie file and the pending flag of /setcookies
    monitor,        \* run_monitor of race_income_watcher: its state and what it has sent
    metrics,        \* one call of fetch_race_metrics
    goals           \* the income goals file, one upsert and one load

gather_vars ==
    << pc, site, hash_seed, rich_left, queue, visited, request_count, max_requests,
       results_order, results_map, links, results, promos, report,
       seed_count, issued, skipped, seen, detail_failed,
       progress_cb, calls, progress_state, sent, popped >>

vars == << gather_vars, frames, loop, wizard, jar, monitor, metrics, goals >>

side_vars == << jar, monitor, metrics, goals >>

bot_vars == << loop, wizard, side_vars >>

progress_vars == << progress_cb, calls, progress_state >>

crawl_locals ==
    << queue, visited, request_count, max_requests, results_order, results_map,
       seed_count, issued, skipped, popped >>

NoMap == [u \in {} |-> None]

NoReport == [status |-> "none", sorted_active |-> <<>>, groups |-> <<>>, totals |-> Totals(<<>>)]

(***************************************************************************)
(* The frame of one call of _gather_promos_with_usage on a worker thread:  *)
(* the locals of lines 1326-1329, 1373-1374, 1540 and 1552, the requests   *)
(* the thread has sent and not yet seen answered, and as history whether   *)
(* its fetch loop has ended and whether it ran while another call ran.     *)
(***************************************************************************)
Crawls == 0..2

NewFrame ==
    [pc |-> "idle", queue |-> <<>>, visited |-> {}, request_count |-> 0, max_requests |-> 0,
     results_order |-> <<>>, results_map |-> <<>>, links |-> <<>>,
     results |-> <<>>, in_flight |-> <<>>, loop_ended |-> FALSE, overlap |-> FALSE]

NoFrames == [c \in Crawls |-> NewFrame]

(***************************************************************************)
(* One /checkpromos command on the event loop: the worker thread that runs *)
(* the crawl (line 763), the loop's queue of ready callbacks, the edits of *)
(* the progress message that are on their way to Telegram, where the       *)
(* command's coroutine stands, and the text the progress message shows.    *)
(***************************************************************************)
\* lines 731-733: the text the progress message is created with
CheckingText == [kind |-> "checking", step |-> 0, total |-> None, url |-> None]

NoLoop ==
    [worker |-> "running", ready |-> <<>>, in_flight |-> {}, cmd |-> "to_thread",
     cmd_edit |-> None, outcome |-> None, message |-> CheckingText,
     final_applied |-> FALSE]

(***************************************************************************)
(* The parts of the program beside the crawl, each idle unless its own     *)
(* specification starts it.                                                *)
(***************************************************************************)
\* context.user_data[SETCOOKIE_PENDING_KEY], the file at COOKIES_PATH, and as
\* history the reply of the last message ingest_cookies has handled
NoJar == [pending |-> FALSE, file |-> [kind |-> "missing", lines |-> <<>>], reply |-> "none"]

\* the races the monitor can be told to watch
MonitorRaces == {"1", "2"}

\* run_monitor: where it stands, the flag its signal handler sets, the dict
\* `state`, the race list of the iteration and the index of the race being
\* handled, and as history what was done for each race of the iteration and
\* for the race handled last
NoMonitor ==
    [pc |-> "idle", stop_requested |-> FALSE, state |-> [r \in MonitorRaces |-> None],
     race_ids |-> <<>>, i |-> 0, done |-> <<>>,
     last |-> [race |-> "", fetched |-> None, notified |-> None]]

\* one call of fetch_race_metrics: where it stands, its `retries`, the loop
\* variable `attempt`, last_error, and as history the requests it has made,
\* the response to the last one and how the call ended
NoMetrics ==
    [pc |-> "idle", retries |-> 0, attempt |-> 0, last_error |-> "none",
     requests |-> 0, home_requests |-> 0, response |-> None, outcome |-> "none"]

\* the goals file (None while it does not exist, else its lines), the
\* upsert_income_goal under way in the bot (its position, the dict it dumps and
\* the lines not yet in the file), and as history what the monitor's last
\* load_income_goals returned and the goals before and after the upsert
NoGoals ==
    [file |-> None, pc |-> "idle", raw |-> [r \in MonitorRaces |-> None], unwritten |-> <<>>,
     loaded |-> None,
     before |-> [r \in MonitorRaces |-> None], after |-> [r \in MonitorRaces |-> None]]

(***************************************************************************)
(* The promo wizard of one user: context.user_data[WIZARD_STATE_KEY] and   *)
(* context.user_data[WIZARD_DATA_KEY], the inline keyboards the bot has    *)
(* sent to the chat (their buttons stay usable), and as history the fields *)
(* the user has confirmed since the last /promowizard and the creation the *)
(* wizard has launched; the user, the value of ADMIN_IDS, and as history   *)
(* whether the creation subprocess has run and whether _handle_create has  *)
(* turned the user away.                                                   *)
(***************************************************************************)
NoWizard ==
    [state |-> None, data |-> None, keyboards |-> {}, confirmed |-> {}, launched |-> None,
     user |-> "admin", admin_ids |-> {}, ran |-> FALSE, refused |-> FALSE]

(***************************************************************************)
(* The HTTP requests: what is passed to session.get and session.post.      *)
(***************************************************************************)
HX_HEADERS == {<<"HX-Request", "true">>, <<"X-Requested-With", "XMLHttpRequest">>}

NoHeaders == {}

\* lines 1388-1391: session.post(url, data=..., headers=HX_HEADERS) or
\* session.get(url, headers=HX_HEADERS)
ListingRequest(task) == [method |-> task.method, target |-> "listing", headers |-> HX_HEADERS]

\* line 1544: session.get(PROMO_LIST_URLS[0].format(...), timeout=30)
FallbackRequest == [method |-> "GET", target |-> "fallback", headers |-> NoHeaders]

\* line 1555: session.get(view_url, timeout=30)
DetailRequest == [method |-> "GET", target |-> "detail", headers |-> NoHeaders]

(***************************************************************************)
(* The progress sink.  Time is counted in quarters of a second and only as *)
(* far as the sink can tell: an age of HALF_SECOND stands for 0.5 s or     *)
(* more.  last_age is time.monotonic() - progress_state["last"]; the other *)
(* fields are history: edited (an edit of the progress message was         *)
(* scheduled), accepted (the last invocation scheduled one), edit_gap (the *)
(* time between the last two scheduled edits), invoked, call_age and       *)
(* call_gap (the same for the per-request invocations of the sink).        *)
(***************************************************************************)
HALF_SECOND == 2

Durations == 0..HALF_SECOND

Sat(t) == IF t > HALF_SECOND THEN HALF_SECOND ELSE t

NoProgress ==
    [last_age |-> HALF_SECOND, edited |-> FALSE, accepted |-> FALSE, edit_gap |-> None,
     invoked |-> FALSE, call_age |-> HALF_SECOND, call_gap |-> None]

\* d quarters of a second pass
Tick(ps, d) == [ps EXCEPT !.last_age = Sat(@ + d), !.call_age = Sat(@ + d)]

\* the time an iteration may take; it is not followed when there is no sink
Elapsed == IF progress_cb = "none" THEN {0} ELSE Durations

\* the empty string passed as current_url
NoUrl == Url("", "", 0, "", "", 0)

\* a sink that schedules an edit on every invocation
checkpromos_progress_cb_unthrottled(ps, step, pending, current_url) ==
    [ps EXCEPT !.last_age = 0, !.edited = TRUE, !.accepted = TRUE,
               !.edit_gap = IF ps.edited THEN Some(ps.last_age) ELSE None]

\* lines 752-760: progress_cb of checkpromos
checkpromos_progress_cb(ps, step, pending, current_url) ==
    IF ps.last_age < HALF_SECOND
    THEN [ps EXCEPT !.accepted = FALSE]
    ELSE [ps EXCEPT !.last_age = 0, !.edited = TRUE, !.accepted = TRUE,
                    !.edit_gap = IF ps.edited THEN Some(ps.last_age) ELSE None]

\* arguments that count the requests before the one just answered
PerRequestCall_before(rc, q, response_url) ==
    [step |-> rc - 1, pending |-> Len(q), url |-> response_url]

\* line 1512: progress_cb(request_count, len(queue), response.url)
PerRequestCall(rc, q, response_url) ==
    [step |-> rc, pending |-> Len(q), url |-> response_url]

\* line 1527: progress_cb(request_count, len(queue), "")
CompletionCall(rc, q) == [step |-> rc, pending |-> Len(q), url |-> NoUrl]

\* lines 1510-1514 and 1525-1529: the crawl invokes the sink it was given
Invoke(ps, args, per_request) ==
    LET r == checkpromos_progress_cb(ps, args.step, args.pending, args.url)
    IN  IF per_request
        THEN [r EXCEPT !.invoked = TRUE, !.call_age = 0,
                       !.call_gap = IF ps.invoked THEN Some(ps.call_age) ELSE None]
        ELSE r

Init ==
    /\ pc = "seed"
    /\ site \in Sites
    /\ hash_seed \in HashSeeds
    /\ rich_left = MaxRichPages
    /\ queue = <<>>
    /\ visited = {}
    /\ request_count = 0
    /\ max_requests = 0
    /\ results_order = <<>>
    /\ results_map = NoMap
    /\ links = <<>>
    /\ results = <<>>
    /\ promos = <<>>
    /\ report = NoReport
    /\ seed_count = 0
    /\ issued = <<>>
    /\ skipped = {}
    /\ seen = <<>>
    /\ detail_failed = {}
    /\ progress_cb = "none"
    /\ calls = <<>>
    /\ progress_state = NoProgress
    /\ sent = {}
    /\ popped = 0
    /\ frames = NoFrames
    /\ loop = NoLoop
    /\ jar = NoJar
    /\ monitor = NoMonitor
    /\ metrics = NoMetrics
    /\ goals = NoGoals
    /\ wizard = NoWizard

\* lines 1341-1374: the seeder fills the queue and the budget is fixed
Seed ==
    /\ pc = "seed"
    /\ pc' = "fetch"
    /\ queue' = SeedQueue(hash_seed)
    /\ request_count' = 0
    /\ max_requests' = MaxRequests(queue')
    /\ seed_count' = Len(queue')
    /\ UNCHANGED << site, hash_seed, rich_left, visited, results_order, results_map,
                    links, results, promos, report, issued, skipped, seen, detail_failed >>
    /\ UNCHANGED progress_vars
    /\ UNCHANGED sent
    /\ UNCHANGED popped
    /\ UNCHANGED << frames, bot_vars >>

\* a skip that puts the task back at the tail instead of dropping it
FetchSkip_requeue ==
    /\ pc = "fetch"
    /\ LoopCond(queue, request_count, max_requests)
    /\ Head(queue) \in visited
    /\ queue' = Append(Tail(queue), Head(queue))
    /\ skipped' = skipped \cup {Head(queue)}
    /\ UNCHANGED << pc, site, hash_seed, rich_left, visited, request_count, max_requests,
                    results_order, results_map, links, results, promos, report,
                    seed_count, issued, seen, detail_failed >>
    /\ UNCHANGED progress_vars
    /\ UNCHANGED sent
    /\ UNCHANGED popped
    /\ UNCHANGED << frames, bot_vars >>

\* lines 1377-1381: the popped task was visited before
FetchSkip ==
    /\ pc = "fetch"
    /\ LoopCond(queue, request_count, max_requests)
    /\ Head(queue) \in visited
    /\ queue' = Tail(queue)
    /\ skipped' = skipped \cup {Head(queue)}
    /\ UNCHANGED << pc, site, hash_seed, rich_left, visited, request_count, max_requests,
                    results_order, results_map, links, results, promos, report,
                    seed_count, issued, seen, detail_failed >>
    /\ UNCHANGED progress_vars
    /\ UNCHANGED sent
    /\ popped' = popped + 1
    /\ UNCHANGED << frames, bot_vars >>

\* a failure handler that puts the task back for another attempt
FetchFail_retry ==
    /\ pc = "fetch"
    /\ LoopCond(queue, request_count, max_requests)
    /\ Head(queue) \notin visited
    /\ Head(queue).url.path \in site.dead
    /\ queue' = Append(Tail(queue), Head(queue))
    /\ request_count' = request_count + 1
    /\ issued' = Append(issued, Head(queue))
    /\ UNCHANGED << pc, site, hash_seed, rich_left, visited, max_requests,
                    results_order, results_map, links, results, promos, report,
                    seed_count, skipped, seen, detail_failed >>
    /\ \E d \in Elapsed : progress_state' = Tick(progress_state, d)
    /\ UNCHANGED << progress_cb, calls >>
    /\ sent' = sent \cup {ListingRequest(Head(queue))}
    /\ popped' = popped + 1
    /\ UNCHANGED << frames, bot_vars >>

\* lines 1377-1395: the request fails, the task is dropped
FetchFail ==
    /\ pc = "fetch"
    /\ LoopCond(queue, request_count, max_requests)
    /\ Head(queue) \notin visited
    /\ Head(queue).url.path \in site.dead
    /\ queue' = Tail(queue)
    /\ visited' = visited \cup {Head(queue)}
    /\ request_count' = request_count + 1
    /\ issued' = Append(issued, Head(queue))
    /\ UNCHANGED << pc, site, hash_seed, rich_left, max_requests,
                    results_order, results_map, links, results, promos, report,
                    seed_count, skipped, seen, detail_failed >>
    /\ \E d \in Elapsed : progress_state' = Tick(progress_state, d)
    /\ UNCHANGED << progress_cb, calls >>
    /\ sent' = sent \cup {ListingRequest(Head(queue))}
    /\ popped' = popped + 1
    /\ UNCHANGED << frames, bot_vars >>

\* the detail URLs of found, each once, that are not in s yet
RECURSIVE FirstSeen(_, _)
FirstSeen(s, found) ==
    IF found = <<>> THEN s
    ELSE IF \E i \in 1..Len(s) : s[i] = Head(found).url THEN FirstSeen(s, Tail(found))
    ELSE FirstSeen(Append(s, Head(found).url), Tail(found))

\* lines 1377-1514: the request succeeds, the page is mined, the sink is told
FetchOk(page) ==
    /\ pc = "fetch"
    /\ LoopCond(queue, request_count, max_requests)
    /\ Head(queue) \notin visited
    /\ Head(queue).url.path \notin site.dead
    /\ visited' = visited \cup {Head(queue)}
    /\ request_count' = request_count + 1
    /\ issued' = Append(issued, Head(queue))
    /\ queue' = EnqueueFromPage(Tail(queue), page)
    /\ LET r == RecordLinks(Results(results_order, results_map), Found(page))
       IN  /\ results_order' = r.order
           /\ results_map' = r.map
    /\ seen' = FirstSeen(seen, Found(page))
    /\ rich_left' = IF page = EmptyPage \/ site.kind = "endless" THEN rich_left ELSE rich_left - 1
    /\ UNCHANGED << pc, site, hash_seed, max_requests, links, results, promos, report,
                    seed_count, skipped, detail_failed >>
    /\ \E d \in Elapsed :
         IF progress_cb = "none"
         THEN UNCHANGED << calls, progress_state >>
         ELSE LET args == PerRequestCall(request_count', queue', Head(queue).url)
              IN  /\ calls' = Append(calls, args)
                  /\ progress_state' = Invoke(Tick(progress_state, d), args, TRUE)
    /\ UNCHANGED progress_cb
    /\ sent' = sent \cup {ListingRequest(Head(queue))}
    /\ popped' = popped + 1
    /\ UNCHANGED << frames, bot_vars >>

Fetch ==
    \E page \in (IF site.kind = "endless" THEN {EndlessPage(request_count + 1)}
                 ELSE IF site.kind = "form" THEN FormSitePages(site, rich_left)
                 ELSE SparsePages(rich_left)) : FetchOk(page)

\* an exit taken while tasks are queued and budget is left
LoopExit_early ==
    /\ pc = "fetch"
    /\ pc' = "summary"
    /\ UNCHANGED << site, hash_seed, rich_left, queue, visited, request_count, max_requests,
                    results_order, results_map, links, results, promos, report,
                    seed_count, issued, skipped, seen, detail_failed >>
    /\ UNCHANGED progress_vars
    /\ UNCHANGED sent
    /\ UNCHANGED popped
    /\ UNCHANGED << frames, bot_vars >>

\* lines 1376, 1516-1529: the loop ends, the summary is logged
LoopExit ==
    /\ pc = "fetch"
    /\ ~LoopCond(queue, request_count, max_requests)
    /\ pc' = "summary"
    /\ UNCHANGED << site, hash_seed, rich_left, queue, visited, request_count, max_requests,
                    results_order, results_map, links, results, promos, report,
                    seed_count, issued, skipped, seen, detail_failed >>
    /\ \E d \in Elapsed :
         IF progress_cb = "none"
         THEN UNCHANGED << calls, progress_state >>
         ELSE LET args == CompletionCall(request_count, queue)
              IN  /\ calls' = Append(calls, args)
                  /\ progress_state' = Invoke(Tick(progress_state, d), args, FALSE)
    /\ UNCHANGED progress_cb
    /\ UNCHANGED sent
    /\ UNCHANGED popped
    /\ UNCHANGED << frames, bot_vars >>

\* line 1531 and 1540-1541: the links are returned, the crawl's locals are gone
ReturnLinks ==
    /\ pc = "summary"
    /\ links' = [i \in 1..Len(results_order) |->
                    PromoLink(results_order[i], results_map[results_order[i]].text,
                              results_map[results_order[i]].discount)]
    /\ pc' = IF links' = <<>> THEN "fallback" ELSE "detail"
    /\ queue' = <<>>
    /\ visited' = {}
    /\ request_count' = 0
    /\ max_requests' = 0
    /\ results_order' = <<>>
    /\ results_map' = NoMap
    /\ seed_count' = 0
    /\ issued' = <<>>
    /\ skipped' = {}
    /\ UNCHANGED << site, hash_seed, rich_left, results, promos, report, seen, detail_failed >>
    /\ UNCHANGED progress_vars
    /\ UNCHANGED sent
    /\ popped' = 0
    /\ UNCHANGED << frames, bot_vars >>

\* a zero-discovery handler that raises only when the diagnostic fetch fails
ZeroDiscovery_return(ok) ==
    /\ pc = "fallback"
    /\ pc' = IF ok THEN "returned" ELSE "raised"
    /\ UNCHANGED << site, hash_seed, rich_left, links, results, promos, report, seen,
                    detail_failed, crawl_locals >>
    /\ UNCHANGED progress_vars
    /\ sent' = sent \cup {FallbackRequest}
    /\ UNCHANGED << frames, bot_vars >>

\* lines 1541-1551: the diagnostic fetch (ok: it succeeds), then the RuntimeError
ZeroDiscovery(ok) ==
    /\ pc = "fallback"
    /\ pc' = "raised"
    /\ UNCHANGED << site, hash_seed, rich_left, links, results, promos, report, seen,
                    detail_failed, crawl_locals >>
    /\ UNCHANGED progress_vars
    /\ sent' = sent \cup {FallbackRequest}
    /\ UNCHANGED << frames, bot_vars >>

Fallback == \E ok \in BOOLEAN : ZeroDiscovery(ok)

\* a failure handler that drops the record
DetailFetchFail_drop ==
    /\ pc = "detail"
    /\ Len(results) < Len(links)
    /\ links' = [i \in 1..(Len(links) - 1) |->
                    IF i <= Len(results) THEN links[i] ELSE links[i + 1]]
    /\ detail_failed' = detail_failed \cup {links[Len(results) + 1].url}
    /\ UNCHANGED << pc, site, hash_seed, rich_left, results, promos, report, seen, crawl_locals >>
    /\ UNCHANGED progress_vars
    /\ sent' = sent \cup {DetailRequest}
    /\ UNCHANGED << frames, bot_vars >>

\* lines 1553-1560: the detail fetch of the next link fails
DetailFetchFail ==
    /\ pc = "detail"
    /\ Len(results) < Len(links)
    /\ LET link == links[Len(results) + 1]
       IN  /\ results' = Append(results, PromoUsageInfo(link.text, None, link.url, None))
           /\ detail_failed' = detail_failed \cup {link.url}
    /\ UNCHANGED << pc, site, hash_seed, rich_left, links, promos, report, seen, crawl_locals >>
    /\ UNCHANGED progress_vars
    /\ sent' = sent \cup {DetailRequest}
    /\ UNCHANGED << frames, bot_vars >>

\* lines 1553-1566: the detail fetch of the next link succeeds
DetailFetchOk(html) ==
    /\ pc = "detail"
    /\ Len(results) < Len(links)
    /\ LET link == links[Len(results) + 1]
       IN  results' = Append(results,
                PromoUsageInfo(DetailCode(html, link.text, link.url), _extract_usage_value(html),
                               link.url, link.discount))
    /\ UNCHANGED << pc, site, hash_seed, rich_left, links, promos, report, seen,
                    detail_failed, crawl_locals >>
    /\ UNCHANGED progress_vars
    /\ sent' = sent \cup {DetailRequest}
    /\ UNCHANGED << frames, bot_vars >>

DetailFetch ==
    \E html \in (IF site.kind = "detail" THEN ExtractPages ELSE DetailPages) : DetailFetchOk(html)

\* line 1567 and 763: the list is returned to checkpromos
GatherReturn ==
    /\ pc = "detail"
    /\ Len(results) = Len(links)
    /\ pc' = "returned"
    /\ promos' = results
    /\ UNCHANGED << site, hash_seed, rich_left, links, results, report, seen,
                    detail_failed, crawl_locals >>
    /\ UNCHANGED progress_vars
    /\ UNCHANGED sent
    /\ UNCHANGED << frames, bot_vars >>

\* lines 776-876
checkpromos ==
    /\ pc = "returned"
    /\ pc' = "reported"
    /\ report' = Report(promos)
    /\ UNCHANGED << site, hash_seed, rich_left, links, results, promos, seen,
                    detail_failed, crawl_locals >>
    /\ UNCHANGED progress_vars
    /\ UNCHANGED sent
    /\ UNCHANGED << frames, bot_vars >>

Next ==
    \/ Seed
    \/ FetchSkip
    \/ FetchFail
    \/ Fetch
    \/ LoopExit
    \/ ReturnLinks
    \/ Fallback
    \/ DetailFetchFail
    \/ DetailFetch
    \/ GatherReturn
    \/ checkpromos

Spec == Init /\ [][Next]_vars

\* the steps of the while loop of lines 1376-1514 and its exit
FetchLoop == FetchSkip \/ FetchFail \/ Fetch \/ LoopExit

\* The crawl is one thread of straight-line code and every request it makes
\* has a timeout (timeout=30), so an iteration that can be taken is taken.
\* the sites of Init that answer with at most one rich response
InitFair ==
    /\ pc = "seed"
    /\ site \in Sites
    /\ hash_seed \in HashSeeds
    /\ rich_left = 1
    /\ queue = <<>>
    /\ visited = {}
    /\ request_count = 0
    /\ max_requests = 0
    /\ results_order = <<>>
    /\ results_map = NoMap
    /\ links = <<>>
    /\ results = <<>>
    /\ promos = <<>>
    /\ report = NoReport
    /\ seed_count = 0
    /\ issued = <<>>
    /\ skipped = {}
    /\ seen = <<>>
    /\ detail_failed = {}
    /\ progress_cb = "none"
    /\ calls = <<>>
    /\ progress_state = NoProgress
    /\ sent = {}
    /\ popped = 0
    /\ frames = NoFrames
    /\ loop = NoLoop
    /\ jar = NoJar
    /\ monitor = NoMonitor
    /\ metrics = NoMetrics
    /\ goals = NoGoals
    /\ wizard = NoWizard

SpecFair == InitFair /\ [][Next]_vars /\ WF_vars(FetchLoop)

\* checkpromos runs the crawl with its progress sink (line 763); the monotonic
\* clock stands at 0.5 s or more when it starts (progress_state["last"] is 0.0)
InitProgress ==
    /\ pc = "seed"
    /\ site \in Sites
    /\ hash_seed = "forward"
    /\ rich_left = 1
    /\ queue = <<>>
    /\ visited = {}
    /\ request_count = 0
    /\ max_requests = 0
    /\ results_order = <<>>
    /\ results_map = NoMap
    /\ links = <<>>
    /\ results = <<>>
    /\ promos = <<>>
    /\ report = NoReport
    /\ seed_count = 0
    /\ issued = <<>>
    /\ skipped = {}
    /\ seen = <<>>
    /\ detail_failed = {}
    /\ progress_cb = "checkpromos"
    /\ calls = <<>>
    /\ progress_state = NoProgress
    /\ sent = {}
    /\ popped = 0
    /\ frames = NoFrames
    /\ loop = NoLoop
    /\ jar = NoJar
    /\ monitor = NoMonitor
    /\ metrics = NoMetrics
    /\ goals = NoGoals
    /\ wizard = NoWizard

SpecProgress == InitProgress /\ [][Next]_vars

\* the detail phase for one link that the crawl has returned, with or without
\* the anchor's text and the discount of its row
InitExtract ==
    /\ pc = "detail"
    /\ site = [kind |-> "detail", dead |-> {}]
    /\ hash_seed = "forward"
    /\ rich_left = 0
    /\ queue = <<>>
    /\ visited = {}
    /\ request_count = 0
    /\ max_requests = 0
    /\ results_order = <<>>
    /\ results_map = NoMap
    /\ links \in { <<PromoLink(ViewUrl(1), text, discount)>> :
                      text \in {None, Some(S_X), Some(S_Y)},
                      discount \in {None} \cup {_extract_first_int(Some(t)) : t \in {S_30pct, S_50pct}} }
    /\ results = <<>>
    /\ promos = <<>>
    /\ report = NoReport
    /\ seed_count = 0
    /\ issued = <<>>
    /\ skipped = {}
    /\ seen = <<ViewUrl(1)>>
    /\ detail_failed = {}
    /\ progress_cb = "none"
    /\ calls = <<>>
    /\ progress_state = NoProgress
    /\ sent = {ListingRequest(Task("GET", ListUrl("/promo/races/{race_id}/slots"), None))}
    /\ popped = 0
    /\ frames = NoFrames
    /\ loop = NoLoop
    /\ jar = NoJar
    /\ monitor = NoMonitor
    /\ metrics = NoMetrics
    /\ goals = NoGoals
    /\ wizard = NoWizard

NextExtract == DetailFetchFail \/ DetailFetch \/ GatherReturn

SpecExtract == InitExtract /\ [][NextExtract]_vars

\* the crawl of a site that renders an htmx form
InitForm ==
    /\ pc = "seed"
    /\ site \in FormSites
    /\ hash_seed = "forward"
    /\ rich_left = 1
    /\ queue = <<>>
    /\ visited = {}
    /\ request_count = 0
    /\ max_requests = 0
    /\ results_order = <<>>
    /\ results_map = NoMap
    /\ links = <<>>
    /\ results = <<>>
    /\ promos = <<>>
    /\ report = NoReport
    /\ seed_count = 0
    /\ issued = <<>>
    /\ skipped = {}
    /\ seen = <<>>
    /\ detail_failed = {}
    /\ progress_cb = "none"
    /\ calls = <<>>
    /\ progress_state = NoProgress
    /\ sent = {}
    /\ popped = 0
    /\ frames = NoFrames
    /\ loop = NoLoop
    /\ jar = NoJar
    /\ monitor = NoMonitor
    /\ metrics = NoMetrics
    /\ goals = NoGoals
    /\ wizard = NoWizard

NextForm == Seed \/ FetchSkip \/ Fetch \/ LoopExit

SpecForm == InitForm /\ [][NextForm]_vars

(***************************************************************************)
(* Calls of _gather_promos_with_usage on worker threads (line 763:         *)
(* asyncio.to_thread).  Call 0 runs alone; when it has ended, calls 1 and  *)
(* 2 run interleaved.  The site answers a request by what is asked, the    *)
(* same for every call.  A request is sent in one step and answered in     *)
(* another.                                                                *)
(***************************************************************************)
FormTask == Task("POST", ItemsUrl, _normalize_data(<<<<S_a, S_1>>, <<S_b, S_2>>>>))

\* the page the site answers a listing task with
ServerPage(task) ==
    IF task = Task("GET", ListUrl("/promo/races/{race_id}/slots"), None)
    THEN Page(<<Anchor(ViewUrl(1), Some(S_X), Some(S_30pct)),
                Anchor(WithPage(ListUrl("/promo/races/{race_id}/slots"), 1), None, None)>>,
              <<>>, <<>>)
    ELSE IF task = Task("GET", ListUrl("/races/{race_id}/coupons/"), None)
    THEN Page(<<>>, <<>>, <<Directive("hx-post", ItemsUrl, TRUE,
                <<Input(Some(S_a), "text", FALSE, S_1), Input(Some(S_b), "text", FALSE, S_2)>>)>>)
    ELSE IF task = FormTask
    THEN Page(<<Anchor(ViewUrl(1), Some(S_Y), Some(S_50pct))>>, <<ViewUrl(2)>>, <<>>)
    ELSE EmptyPage

\* the detail page of the second promo is out of order
DetailDead(url) == url = ViewUrl(2)

ServerDetail(url) == DetailPage(Some(S_B2), Some(S_5))

AllListingPaths ==
    {PROMO_LIST_URLS[i] : i \in 1..Len(PROMO_LIST_URLS)} \cup {"/races/{race_id}/coupons/pages/{page}/"}

PairSites ==
    { [kind |-> "fixed", dead |-> {"/race/coupons/list/{race_id}"}],
      [kind |-> "fixed", dead |-> AllListingPaths] }

Request(target, task) == [target |-> target, task |-> task]

\* a client that does not wait for the response before it goes on
CanSend_async(f) == TRUE

\* session.get and session.post return when the response is there: the thread
\* goes on only when nothing it sent is unanswered
CanSend(f) == f.in_flight = <<>>

\* a visited set kept at module level, one for all calls
Visited_shared(fs, c) == UNION {fs[d].visited : d \in Crawls}

\* line 1327: visited is a local of the call
Visited(fs, c) == fs[c].visited

Busy(f) == f.pc \in {"fetch", "fallback", "detail"}

\* history: call c takes a step while another call is under way
Step(c, f) == [f EXCEPT !.overlap = @ \/ (\E d \in Crawls \ {c} : Busy(frames[d]))]

\* lines 1326-1374
ThreadSeed(c) ==
    /\ frames[c].pc = "idle"
    /\ c # 0 => frames[0].pc \in {"returned", "raised"}
    /\ LET q == SeedQueue(hash_seed)
       IN  frames' = [frames EXCEPT ![c] =
                Step(c, [@ EXCEPT !.pc = "fetch", !.queue = q, !.max_requests = MaxRequests(q)])]
    /\ UNCHANGED << gather_vars, bot_vars >>

\* lines 1377-1381
ThreadSkip(c) ==
    LET f == frames[c]
    IN  /\ f.pc = "fetch"
        /\ CanSend(f)
        /\ LoopCond(f.queue, f.request_count, f.max_requests)
        /\ Head(f.queue) \in Visited(frames, c)
        /\ frames' = [frames EXCEPT ![c] = Step(c, [@ EXCEPT !.queue = Tail(f.queue)])]
        /\ UNCHANGED << gather_vars, bot_vars >>

\* lines 1377-1391: the request goes out
ThreadSend(c) ==
    LET f == frames[c]
    IN  /\ f.pc = "fetch"
        /\ CanSend(f)
        /\ LoopCond(f.queue, f.request_count, f.max_requests)
        /\ Head(f.queue) \notin Visited(frames, c)
        /\ frames' = [frames EXCEPT ![c] =
                Step(c, [@ EXCEPT !.queue = Tail(f.queue),
                                  !.visited = f.visited \cup {Head(f.queue)},
                                  !.request_count = f.request_count + 1,
                                  !.in_flight = Append(f.in_flight, Request("listing", Head(f.queue)))])]
        /\ UNCHANGED << gather_vars, bot_vars >>

\* lines 1392-1395: the request fails
ThreadRecvFail(c) ==
    LET f == frames[c]
    IN  /\ f.in_flight # <<>>
        /\ Head(f.in_flight).target = "listing"
        /\ Head(f.in_flight).task.url.path \in site.dead
        /\ frames' = [frames EXCEPT ![c] = Step(c, [@ EXCEPT !.in_flight = Tail(f.in_flight)])]
        /\ UNCHANGED << gather_vars, bot_vars >>

\* lines 1392-1508: the response is there and is mined
ThreadRecvOk(c) ==
    LET f == frames[c]
    IN  /\ f.in_flight # <<>>
        /\ Head(f.in_flight).target = "listing"
        /\ Head(f.in_flight).task.url.path \notin site.dead
        /\ LET page == ServerPage(Head(f.in_flight).task)
               r == RecordLinks(Results(f.results_order, f.results_map), Found(page))
           IN  frames' = [frames EXCEPT ![c] =
                    Step(c, [@ EXCEPT !.in_flight = Tail(f.in_flight),
                                      !.queue = EnqueueFromPage(f.queue, page),
                                      !.results_order = r.order,
                                      !.results_map = r.map])]
        /\ UNCHANGED << gather_vars, bot_vars >>

\* lines 1376, 1516-1531 and 1540-1541: the loop ends and the links are returned
ThreadLoopExit(c) ==
    LET f == frames[c]
        ls == [i \in 1..Len(f.results_order) |->
                  PromoLink(f.results_order[i], f.results_map[f.results_order[i]].text,
                            f.results_map[f.results_order[i]].discount)]
    IN  /\ f.pc = "fetch"
        /\ CanSend(f)
        /\ ~LoopCond(f.queue, f.request_count, f.max_requests)
        /\ frames' = [frames EXCEPT ![c] =
                Step(c, [NewFrame EXCEPT !.pc = IF ls = <<>> THEN "fallback" ELSE "detail",
                                         !.links = ls,
                                         !.loop_ended = TRUE,
                                         !.overlap = f.overlap])]
        /\ UNCHANGED << gather_vars, bot_vars >>

\* line 1544: the diagnostic request goes out
ThreadFallbackSend(c) ==
    LET f == frames[c]
    IN  /\ f.pc = "fallback"
        /\ CanSend(f)
        /\ frames' = [frames EXCEPT ![c] =
                Step(c, [@ EXCEPT !.in_flight = Append(f.in_flight,
                            Request("fallback", Task("GET", ListUrl(PROMO_LIST_URLS[1]), None)))])]
        /\ UNCHANGED << gather_vars, bot_vars >>

\* lines 1545-1551: answered or not, the RuntimeError is raised
ThreadFallbackRaise(c) ==
    LET f == frames[c]
    IN  /\ f.in_flight # <<>>
        /\ Head(f.in_flight).target = "fallback"
        /\ frames' = [frames EXCEPT ![c] =
                Step(c, [@ EXCEPT !.in_flight = Tail(f.in_flight), !.pc = "raised"])]
        /\ UNCHANGED << gather_vars, bot_vars >>

\* lines 1553-1555: the request for the next detail page goes out
ThreadDetailSend(c) ==
    LET f == frames[c]
    IN  /\ f.pc = "detail"
        /\ CanSend(f)
        /\ Len(f.results) + Len(f.in_flight) < Len(f.links)
        /\ frames' = [frames EXCEPT ![c] =
                Step(c, [@ EXCEPT !.in_flight = Append(f.in_flight,
                            Request("detail",
                                    Task("GET", f.links[Len(f.results) + Len(f.in_flight) + 1].url, None)))])]
        /\ UNCHANGED << gather_vars, bot_vars >>

\* lines 1556-1566: the detail request fails or is answered
ThreadDetailRecv(c) ==
    LET f == frames[c]
    IN  /\ f.in_flight # <<>>
        /\ Head(f.in_flight).target = "detail"
        /\ LET link == f.links[Len(f.results) + 1]
               html == ServerDetail(link.url)
               info == IF DetailDead(link.url)
                       THEN PromoUsageInfo(link.text, None, link.url, None)
                       ELSE PromoUsageInfo(DetailCode(html, link.text, link.url),
                                           _extract_usage_value(html), link.url, link.discount)
           IN  frames' = [frames EXCEPT ![c] =
                    Step(c, [@ EXCEPT !.in_flight = Tail(f.in_flight),
                                      !.results = Append(f.results, info)])]
        /\ UNCHANGED << gather_vars, bot_vars >>

\* line 1567
ThreadReturn(c) ==
    LET f == frames[c]
    IN  /\ f.pc = "detail"
        /\ CanSend(f)
        /\ Len(f.results) = Len(f.links)
        /\ frames' = [frames EXCEPT ![c] = Step(c, [@ EXCEPT !.pc = "returned"])]
        /\ UNCHANGED << gather_vars, bot_vars >>

InitPair ==
    /\ pc = "threads"
    /\ site \in PairSites
    /\ hash_seed \in HashSeeds
    /\ rich_left = 0
    /\ queue = <<>>
    /\ visited = {}
    /\ request_count = 0
    /\ max_requests = 0
    /\ results_order = <<>>
    /\ results_map = NoMap
    /\ links = <<>>
    /\ results = <<>>
    /\ promos = <<>>
    /\ report = NoReport
    /\ seed_count = 0
    /\ issued = <<>>
    /\ skipped = {}
    /\ seen = <<>>
    /\ detail_failed = {}
    /\ progress_cb = "none"
    /\ calls = <<>>
    /\ progress_state = NoProgress
    /\ sent = {}
    /\ popped = 0
    /\ frames = NoFrames
    /\ loop = NoLoop
    /\ jar = NoJar
    /\ monitor = NoMonitor
    /\ metrics = NoMetrics
    /\ goals = NoGoals
    /\ wizard = NoWizard

NextPair ==
    \E c \in Crawls :
        \/ ThreadSeed(c)
        \/ ThreadSkip(c)
        \/ ThreadSend(c)
        \/ ThreadRecvFail(c)
        \/ ThreadRecvOk(c)
        \/ ThreadLoopExit(c)
        \/ ThreadFallbackSend(c)
        \/ ThreadFallbackRaise(c)
        \/ ThreadDetailSend(c)
        \/ ThreadDetailRecv(c)
        \/ ThreadReturn(c)

SpecPair == InitPair /\ [][NextPair]_vars

(***************************************************************************)
(* The report on its own: checkpromos applied to the lists that            *)
(* _gather_promos_with_usage can return (one entry per detail URL; code    *)
(* None, "B", "B2" or "b"; usage parsed from the text beside the label).   *)
(***************************************************************************)
S_A == <<65>>

S_B == <<66>>

S_C == <<67>>

ReportCodes == {None, Some(S_B), Some(S_B2), Some(S_b)}

ReportUsages == {None} \cup {_extract_first_int(Some(t)) : t \in {S_5, S_0, S_minus2}}

ReportDiscounts == {None} \cup {_extract_first_int(Some(t)) : t \in {S_30pct, S_50pct}}

PromoLists ==
    UNION { [1..n -> ReportCodes \X ReportUsages \X ReportDiscounts] : n \in 0..MaxPromos }

\* usages [5, 0, None, 5] with codes [B, C, A, B2]
ExamplePromos ==
    << PromoUsageInfo(Some(S_B), Some(5), ViewUrl(1), None),
       PromoUsageInfo(Some(S_C), Some(0), ViewUrl(2), None),
       PromoUsageInfo(Some(S_A), None, ViewUrl(3), None),
       PromoUsageInfo(Some(S_B2), Some(5), ViewUrl(4), None) >>

\* discounts [50, 50, None] with usages [3, 2, 1]
ExampleGrouping ==
    << PromoUsageInfo(Some(S_A), Some(3), ViewUrl(1), Some(50)),
       PromoUsageInfo(Some(S_B), Some(2), ViewUrl(2), Some(50)),
       PromoUsageInfo(Some(S_C), Some(1), ViewUrl(3), None) >>

\* discounts [50, 30, None] with usages [0, None, 4]
ExampleTotals ==
    << PromoUsageInfo(Some(S_A), Some(0), ViewUrl(1), Some(50)),
       PromoUsageInfo(Some(S_B), None, ViewUrl(2), Some(30)),
       PromoUsageInfo(Some(S_C), Some(4), ViewUrl(3), None) >>

InitReport ==
    /\ pc = "returned"
    /\ promos \in { [i \in 1..Len(l) |-> PromoUsageInfo(l[i][1], l[i][2], ViewUrl(i), l[i][3])] :
                    l \in PromoLists } \cup {ExamplePromos, ExampleGrouping, ExampleTotals}
    /\ site \in {[kind |-> "sparse", dead |-> {}]}
    /\ hash_seed = "forward"
    /\ rich_left = 0
    /\ queue = <<>>
    /\ visited = {}
    /\ request_count = 0
    /\ max_requests = 0
    /\ results_order = <<>>
    /\ results_map = NoMap
    /\ links = <<>>
    /\ results = promos
    /\ report = NoReport
    /\ seed_count = 0
    /\ issued = <<>>
    /\ skipped = {}
    /\ seen = <<>>
    /\ detail_failed = {}
    /\ progress_cb = "none"
    /\ calls = <<>>
    /\ progress_state = NoProgress
    /\ sent = {}
    /\ popped = 0
    /\ frames = NoFrames
    /\ loop = NoLoop
    /\ jar = NoJar
    /\ monitor = NoMonitor
    /\ metrics = NoMetrics
    /\ goals = NoGoals
    /\ wizard = NoWizard

NextReport == checkpromos

SpecReport == InitReport /\ [][NextReport]_vars

(***************************************************************************)
(* Properties.                                                             *)
(***************************************************************************)
PairSet(payload) == {payload[i] : i \in 1..Len(payload)}

\* same method, same URL, same payload as a set of key/value pairs
SameTask(t1, t2) ==
    /\ t1.method = t2.method
    /\ t1.url = t2.url
    /\ PairSet(t1.payload) = PairSet(t2.payload)

\* C1: among the requests issued by one crawl no two have the same method, the
\* same URL and the same set of payload pairs, and every task that was popped
\* and skipped had been issued before.
C1_IssuedAtMostOnce ==
    /\ \A i, j \in 1..Len(issued) : i < j => ~SameTask(issued[i], issued[j])
    /\ \A t \in skipped : \E i \in 1..Len(issued) : issued[i] = t

\* a crawl has ended in which a task seeded several times and a form task
\* discovered on two pages, with its two fields in some order, were skipped
C1_Witness ==
    /\ pc = "summary"
    /\ \E t \in skipped : t.method = "POST" /\ Len(t.payload) = 2
    /\ \E t \in skipped : t.method = "POST" /\ t.payload = None
    /\ Len(issued) < seed_count

\* C2: in the fetch loop the number of requests issued is at most
\* max(80, 2 * seedCount), and the budget stays what it was before the first request.
C2_Budget ==
    pc \in {"fetch", "summary"} =>
        /\ request_count = Len(issued)
        /\ request_count <= Max(80, 2 * seed_count)
        /\ max_requests = Max(80, 2 * seed_count)

\* the budget stopped a crawl whose pages kept adding tasks
C2_Witness ==
    /\ pc = "summary"
    /\ request_count = Max(80, 2 * seed_count)
    /\ Len(queue) > 0
    /\ Len(issued) > seed_count

\* C3: with zero discovered detail URLs _gather_promos_with_usage does not reach
\* the detail phase and does not return; what it returns is never an empty list.
C3_ZeroDiscoveryRaises ==
    /\ (pc \in {"fallback", "detail", "returned", "reported", "raised"} /\ seen = <<>>)
            => pc \in {"fallback", "raised"}
    /\ pc \in {"returned", "reported"} => promos # <<>>
    /\ pc = "raised" => seen = <<>>

\* the error was raised after a crawl that found nothing
C3_Witness == pc = "raised" /\ seen = <<>> /\ links = <<>>

Urls(infos) == [i \in 1..Len(infos) |-> infos[i].url]

\* C4: the returned list holds one PromoUsageInfo per discovered detail URL, in
\* the order in which the URLs were first discovered.
C4_OnePerUrlInOrder ==
    /\ pc \in {"detail", "returned", "reported"} => Urls(links) = seen
    /\ pc \in {"returned", "reported"} => Urls(promos) = seen
    /\ \A i, j \in 1..Len(seen) : i < j => seen[i] # seen[j]

\* a list was returned with a URL that was met on two pages (its text X and its
\* discount 50 come from different anchors) and by anchor and raw-text scan
C4_Witness ==
    /\ pc = "returned"
    /\ \E i \in 1..Len(links) : links[i].text = Some(S_X) /\ links[i].discount = Some(50)
    /\ Len(promos) = Len(seen)
    /\ Len(promos) >= 1

\* C5: every detail URL whose fetch failed has its record, with usage_left None,
\* and the list returned has a record for every discovered URL.
C5_DetailFailureKept ==
    /\ \A u \in detail_failed :
            \E i \in 1..Len(results) : results[i].url = u /\ results[i].usage_left = None
    /\ pc \in {"returned", "reported"} => Len(promos) = Len(seen)

\* a detail fetch failed and a later URL was fetched and parsed
C5_Witness ==
    /\ pc = "returned"
    /\ \E i, j \in 1..Len(promos) :
            /\ i < j
            /\ promos[i].url \in detail_failed
            /\ promos[j].url \notin detail_failed
            /\ promos[j].usage_left = Some(5)

IsDead(t) == t.url.path \in site.dead

\* C6: a listing request that failed is in the visited set and was issued once,
\* the loop ends only on an empty queue or a spent budget, and every detail URL
\* discovered so far is in the result map.
C6_FailedTaskDropped ==
    /\ \A i \in 1..Len(issued) : IsDead(issued[i]) =>
            /\ issued[i] \in visited
            /\ \A j \in 1..Len(issued) : j # i => issued[j] # issued[i]
    /\ pc = "summary" => ~LoopCond(queue, request_count, max_requests)
    /\ pc \in {"fetch", "summary"} =>
            /\ results_order = seen
            /\ DOMAIN results_map = {seen[i] : i \in 1..Len(seen)}

\* a crawl that found a link has ended; a form task discovered twice failed and
\* was skipped when it came up again, and requests were issued after a failure
C6_Witness ==
    /\ pc = "summary"
    /\ seen # <<>>
    /\ \E i \in 1..Len(issued) :
            /\ IsDead(issued[i])
            /\ issued[i] \in skipped
            /\ Len(issued[i].payload) = 2
    /\ \E i \in 1..Len(issued) : IsDead(issued[i]) /\ i < Len(issued)

\* the two merges of section 8: (None, None) and ("X", 30) in either order
MergeExamples ==
    LET u == ViewUrl(1)
        bare == PromoLink(u, None, None)
        full == PromoLink(u, Some(S_X), Some(30))
        want == [text |-> Some(S_X), discount |-> Some(30)]
    IN  /\ RecordLinks(Results(<<>>, NoMap), <<bare, full>>).map[u] = want
        /\ RecordLinks(Results(<<>>, NoMap), <<full, bare>>).map[u] = want

\* C7: in the result map of a crawl a text or discount that is non-null never
\* changes; a later discovery fills only the fields that are null.
C7_FirstNonNullWins ==
    [][ /\ \A u \in (DOMAIN results_map) \cap (DOMAIN results_map') :
              /\ results_map[u].text # None => results_map'[u].text = results_map[u].text
              /\ results_map[u].discount # None => results_map'[u].discount = results_map[u].discount
        /\ pc' = "fetch" => (DOMAIN results_map) \subseteq (DOMAIN results_map')
        /\ MergeExamples ]_vars

\* a URL whose text X was kept and whose discount 50 was filled in by a later
\* anchor carrying the text Y
C7_Witness ==
    /\ pc = "fetch"
    /\ \E u \in DOMAIN results_map :
            results_map[u] = [text |-> Some(S_X), discount |-> Some(50)]

RECURSIVE Flatten(_)
Flatten(groups) == IF groups = <<>> THEN <<>> ELSE Head(groups).items \o Flatten(Tail(groups))

\* the entries the report shows, group after group
ReportEntries == Flatten(report.groups)

\* C8: the report shows exactly the entries whose usage_left is not 0.
C8_ReportFiltersZero ==
    pc = "reported" =>
        /\ {ReportEntries[i] : i \in 1..Len(ReportEntries)}
                = {promos[i] : i \in {k \in 1..Len(promos) : promos[k].usage_left # Some(0)}}
        /\ Len(ReportEntries) = Cardinality({k \in 1..Len(promos) : promos[k].usage_left # Some(0)})

\* a report made of a list with an exhausted, an unknown and a positive entry
C8_Witness ==
    /\ pc = "reported"
    /\ report.status = "report"
    /\ \E i, j, k \in 1..Len(promos) :
            /\ promos[i].usage_left = Some(0)
            /\ promos[j].usage_left = None
            /\ promos[k].usage_left = Some(5)

Codes(infos) == [i \in 1..Len(infos) |-> _code_text(infos[i])]

\* C9: the shown entries are ordered by usage_left descending and, for equal
\* usage_left, by code ascending without regard to case; the example list is
\* shown as B, B2, A.
C9_UsageDescCodeAsc ==
    pc = "reported" =>
        LET s == report.sorted_active
        IN  /\ \A i, j \in 1..Len(s) : (i < j /\ s[i].usage_left = s[j].usage_left) =>
                    ~StrLt(Lower(_code_text(s[j])), Lower(_code_text(s[i])))
            /\ promos = ExamplePromos => Codes(s) = <<S_B, S_B2, S_A>>

Known(info) == info.usage_left # None

\* C10 as stated: in the shown order no entry with an unknown usage_left stands
\* before an entry with a known one.
C10_UnknownAfterKnown ==
    pc = "reported" =>
        LET s == report.sorted_active
        IN  \A i, j \in 1..Len(s) : i < j => ~(~Known(s[i]) /\ Known(s[j]))

\* C10 as amended: in the shown order no entry with an unknown usage_left
\* stands before an entry with a known usage_left that is not negative.
C10_UnknownAfterNonNegative ==
    pc = "reported" =>
        LET s == report.sorted_active
        IN  \A i, j \in 1..Len(s) :
                i < j => ~(~Known(s[i]) /\ Known(s[j]) /\ Val(s[j].usage_left) >= 0)

\* a report in which an unknown entry that came first in the list is shown
\* after a positive one
C10_Witness ==
    /\ pc = "reported"
    /\ Len(promos) >= 2
    /\ promos[1].usage_left = None
    /\ promos[2].usage_left = Some(5)
    /\ Len(report.sorted_active) = Len(promos)
    /\ report.sorted_active[1] = promos[2]

\* the positions in promos of the entries that are not exhausted
NonExhausted == {k \in 1..Len(promos) : promos[k].usage_left # Some(0)}

\* the sum of f over the finite set S
RECURSIVE SumOver(_, _)
SumOver(f, S) ==
    IF S = {} THEN 0
    ELSE LET x == CHOOSE y \in S : TRUE IN f[x] + SumOver(f, S \ {x})

UsageAt == [k \in 1..Len(promos) |->
                IF promos[k].usage_left = None THEN 0 ELSE Val(promos[k].usage_left)]

\* C11: the groups of the report are the discounts of the non-exhausted entries,
\* each once, in descending order with the unknown discount last; a group holds
\* the entries of its discount, its count is their number, its sum the sum of
\* their known usage values and its unknown count the number of them without a
\* usage value.  The list [50/3, 50/2, None/1] gives 50: 2, 5 and unknown: 1, 1.
C11_GroupsByDiscount ==
    (pc = "reported" /\ report.status = "report") =>
        LET g == report.groups
        IN  /\ {g[i].key : i \in 1..Len(g)} = {promos[k].discount_percent : k \in NonExhausted}
            /\ \A i, j \in 1..Len(g) :
                    i < j => /\ g[i].key # None
                             /\ g[j].key # None => Val(g[i].key) > Val(g[j].key)
            /\ \A i \in 1..Len(g) :
                    LET members == {k \in NonExhausted : promos[k].discount_percent = g[i].key}
                    IN  /\ {g[i].items[j] : j \in 1..Len(g[i].items)} = {promos[k] : k \in members}
                        /\ g[i].count = Cardinality(members)
                        /\ g[i].known_usage = SumOver(UsageAt, members)
                        /\ g[i].unknown_count =
                                Cardinality({k \in members : promos[k].usage_left = None})
            /\ promos = ExampleGrouping =>
                    /\ [i \in 1..Len(g) |-> g[i].key] = <<Some(50), None>>
                    /\ [i \in 1..Len(g) |-> g[i].count] = <<2, 1>>
                    /\ [i \in 1..Len(g) |-> g[i].known_usage] = <<5, 1>>

\* a report with a known-discount group before the unknown bucket, one of them
\* holding an entry without a usage value, the other a positive sum
C11_Witness ==
    /\ pc = "reported"
    /\ report.status = "report"
    /\ Len(report.groups) = 2
    /\ report.groups[2].key = None
    /\ \E i, j \in 1..2 : report.groups[i].unknown_count = 1 /\ report.groups[j].known_usage > 0

\* C12: every non-exhausted entry stands in exactly one group, once; the grand
\* totals are the sums of the groups' totals, and they are the number of the
\* non-exhausted entries, the sum of their known usage values and the number of
\* them without a usage value.
C12_TotalsPartition ==
    (pc = "reported" /\ report.status = "report") =>
        LET g == report.groups
            t == report.totals
            G == 1..Len(g)
        IN  /\ \A k \in NonExhausted :
                    Cardinality({ij \in G \X (1..Len(promos)) :
                                    /\ ij[2] <= Len(g[ij[1]].items)
                                    /\ g[ij[1]].items[ij[2]] = promos[k]}) = 1
            /\ t.total_codes = SumOver([i \in G |-> g[i].count], G)
            /\ t.total_known_usage = SumOver([i \in G |-> g[i].known_usage], G)
            /\ t.total_unknown = SumOver([i \in G |-> g[i].unknown_count], G)
            /\ t.total_codes = Cardinality(NonExhausted)
            /\ t.total_known_usage = SumOver(UsageAt, NonExhausted)
            /\ t.total_unknown = Cardinality({k \in NonExhausted : promos[k].usage_left = None})

\* a report of two groups made of a list that also held an exhausted entry
C12_Witness ==
    /\ pc = "reported"
    /\ report.status = "report"
    /\ Len(report.groups) = 2
    /\ report.totals.total_codes = 2
    /\ report.totals.total_codes < Len(promos)

\* C13: the fetch loop, once entered, comes to its end: the summary is reached
\* with the queue empty or the budget spent, whatever the site answers.
C13_FetchPhaseTerminates ==
    (pc = "fetch") ~> (pc = "summary" /\ (queue = <<>> \/ request_count >= max_requests))

\* the loop over a site whose every response adds a new task has ended on the
\* budget with tasks left
C13_Witness ==
    /\ pc = "summary"
    /\ site.kind = "endless"
    /\ queue # <<>>
    /\ request_count >= max_requests

C15_CompletionDelivered ==
    (progress_cb # "none" /\ pc \notin {"seed", "fetch"}) =>
        /\ calls # <<>>
        /\ calls[Len(calls)].url = NoUrl
        /\ Cardinality({i \in 1..Len(calls) : calls[i].url = NoUrl}) = 1
        /\ progress_state.accepted

\* C16: a step of the loop in which a request is answered appends to the sink's
\* invocations the number of requests issued so far, the length of the queue
\* after the page's tasks were added and the URL answered; no other step of the
\* loop invokes the sink; the counts passed never decrease.
C16_ProgressArguments ==
    [][ (progress_cb # "none" /\ pc = "fetch" /\ pc' = "fetch") =>
            /\ IF Len(issued') = Len(issued) + 1 /\ ~IsDead(Head(queue))
               THEN calls' = Append(calls, [step |-> Len(issued'), pending |-> Len(queue'),
                                            url |-> Head(queue).url])
               ELSE calls' = calls
            /\ \A i, j \in 1..Len(calls') : i < j => calls'[i].step <= calls'[j].step ]_vars

\* the sink was invoked after a request that followed a failed one, and after a
\* page that added tasks to the queue
C16_Witness ==
    /\ pc = "fetch"
    /\ progress_cb # "none"
    /\ Len(calls) >= 2
    /\ calls[Len(calls)].step > Len(calls)
    /\ \E i \in 1..(Len(calls) - 1) : calls[i + 1].pending >= calls[i].pending

\* C17: every HTTP request made, to a listing, to the fallback page or to a
\* detail page, carries the HX-Request and X-Requested-With headers.
C17_AllRequestsCarryHeaders == \A r \in sent : r.headers = HX_HEADERS

\* the elements of s, each at its first place only
RECURSIVE Dedup(_)
Dedup(s) ==
    IF s = <<>> THEN <<>>
    ELSE LET d == Dedup(SubSeq(s, 1, Len(s) - 1))
         IN  IF \E i \in 1..Len(d) : d[i] = s[Len(s)] THEN d ELSE Append(d, s[Len(s)])

\* C20: a step of the loop takes the task at the head of the queue and issues
\* it or skips it, and leaves the rest of the queue in place, new tasks behind
\* it; so when the last seeded task is taken, the requests issued are the
\* seeded tasks, each once, in the order of their first enqueue.
C20_Fifo ==
    [][ (pc = "fetch" /\ pc' = "fetch") =>
            /\ queue # <<>>
            /\ issued' = issued \/ issued' = Append(issued, Head(queue))
            /\ Len(queue') >= Len(queue) - 1
            /\ SubSeq(queue', 1, Len(queue) - 1) = Tail(queue)
            /\ popped' = seed_count => issued' = Dedup(SeedQueue(hash_seed)) ]_vars

\* a task found on a page (a form with two fields, never seeded) was issued
\* after every seeded task had been taken from the queue
C20_Witness ==
    /\ pc = "fetch"
    /\ popped > seed_count
    /\ issued # <<>>
    /\ Len(issued[Len(issued)].payload) = 2

Targets(f) == {f.in_flight[i].target : i \in 1..Len(f.in_flight)}

\* C18: a call has at most one request unanswered at any time; a request for a
\* detail page is out, or a detail record made, only when the call's fetch loop
\* has ended, and then no listing request of the call is out.
C18_SequentialAndPhased ==
    \A c \in Crawls :
        LET f == frames[c]
        IN  /\ Len(f.in_flight) <= 1
            /\ ("detail" \in Targets(f) \/ f.results # <<>>) => f.loop_ended
            /\ f.loop_ended => "listing" \notin Targets(f)

\* two calls have a request out at the same time, one of them for a detail
\* page after a record was made, the other for a listing
C18_Witness ==
    \E c, d \in Crawls :
        /\ Targets(frames[c]) = {"detail"}
        /\ frames[c].results # <<>>
        /\ Targets(frames[d]) = {"listing"}

\* C19: a call skips a task only when the call itself has issued it, and a call
\* that ran interleaved with another ends as the call that ran alone against
\* the same site ended, and returns the same list.
C19_InterleavedAsAlone ==
    [][ /\ \A c \in Crawls :
              ( /\ frames[c].pc = "fetch"
                /\ frames'[c].pc = "fetch"
                /\ Len(frames'[c].queue) < Len(frames[c].queue)
                /\ frames'[c].request_count = frames[c].request_count )
              => Head(frames[c].queue) \in frames[c].visited
        /\ \A c \in Crawls \ {0} :
              frames'[c].pc \in {"returned", "raised"} =>
                  /\ frames'[c].pc = frames'[0].pc
                  /\ frames'[c].results = frames'[0].results ]_vars

\* two calls that ran while the other was under way have both returned a list
\* of two records
C19_Witness ==
    /\ \A c \in Crawls : frames[c].pc = "returned" /\ Len(frames[c].results) = 2
    /\ \A c \in Crawls \ {0} : frames[c].overlap

\* C21: when the fetch loop ends, the queue is empty or the number of requests
\* issued equals the budget, so a task is left in the queue only when the budget
\* is spent; and every task taken from the queue was issued at that step or was
\* issued before.
C21_LoopEndsDrainedOrSpent ==
    [][ /\ (pc = "fetch" /\ pc' = "summary") =>
              /\ queue' = <<>> \/ Len(issued') = max_requests'
              /\ queue' # <<>> => request_count' = Max(80, 2 * seed_count')
        /\ (pc = "fetch" /\ popped' = popped + 1) =>
              \/ issued' = Append(issued, Head(queue))
              \/ issued' = issued /\ \E i \in 1..Len(issued) : issued[i] = Head(queue) ]_vars

\* the loop has ended on the budget with tasks left in the queue, after seeded
\* duplicates were taken from the queue and not issued
C21_Witness ==
    /\ pc = "summary"
    /\ queue # <<>>
    /\ Len(issued) = max_requests
    /\ skipped # {}
    /\ popped > Len(issued)

\* s occurs in q as a run of consecutive elements
Occurs(s, q) ==
    \E p \in 0..(Len(q) - Len(s)) : \A k \in 1..Len(s) : q[p + k] = s[k]

\* GET u, then GET u with page = 1..N
BareThenPages(u) ==
    <<Task("GET", u, None)>> \o [k \in 1..MaxPromoPages |-> Task("GET", WithPage(u, k), None)]

\* the POST endpoints /races/<id>/coupons/pages/<k>/ for k = 1..N, then the
\* POSTs of page=k to /races/<id>/coupons/items/
PagedPosts ==
    [k \in 1..MaxPromoPages |->
        Task("POST", Url("/races/{race_id}/coupons/pages/{page}/", RACE_ID, k, "", "", 0), None)]
    \o [k \in 1..MaxPromoPages |->
        Task("POST", ListUrl("/races/{race_id}/coupons/items/"), <<<<S_page, Str(k)>>>>)]

CouponTemplates ==
    {"/race/coupons/list/{race_id}", "/races/{race_id}/coupons/", "/races/{race_id}/coupons/items/"}

TypePaths ==
    {"/promo/races/{race_id}/slots", "/promo/races/{race_id}",
     "/races/{race_id}/coupons/", "/races/{race_id}/coupons/items/"}

StatusPaths == {"/promo/races/{race_id}/slots", "/races/{race_id}/coupons/items/"}

\* C22: the queue the seeder leaves holds, for every URL template, the bare URL
\* followed by its page=1..N GET variants and, for the coupons templates,
\* followed by the paged POST endpoints for pages 1..N; and for every code type
\* and every status filter each listing URL variant, bare and with pages 1..N.
C22_SeederEnqueues ==
    (pc = "fetch" /\ popped = 0) =>
        /\ \A i \in 1..Len(PROMO_LIST_URLS) :
              LET path == PROMO_LIST_URLS[i]
              IN  Occurs(BareThenPages(ListUrl(path))
                         \o (IF path \in CouponTemplates THEN PagedPosts ELSE <<>>), queue)
        /\ \A slug \in PROMO_TYPE_SLUGS :
              /\ \A path \in TypePaths :
                    Occurs(BareThenPages(Url(path, RACE_ID, 0, slug, "", 0)), queue)
              /\ \A path \in StatusPaths :
                    \A j \in 1..Len(PROMO_STATUS_FILTERS) :
                        Occurs(BareThenPages(Url(path, RACE_ID, 0, slug, PROMO_STATUS_FILTERS[j], 0)),
                               queue)
        /\ \A i \in 1..Len(queue) : queue[i].url.race = RACE_ID

\* the seeder has run: the queue holds its tasks and nothing was taken yet
C22_Witness ==
    /\ pc = "fetch"
    /\ popped = 0
    /\ Len(queue) = seed_count
    /\ \E i \in 1..Len(queue) : queue[i].method = "POST" /\ queue[i].payload # None
    /\ \E i \in 1..Len(queue) : queue[i].url.status # "" /\ queue[i].url.page = MaxPromoPages

\* the pages a request of the crawl can be answered with
AnswerPages == SparsePages(1) \cup {EndlessPage(request_count + 1)}

InQueue(t, q) == \E i \in 1..Len(q) : q[i] = t

\* the target carries a page or filter parameter, is on one of the listing
\* paths of the crawled race and is not a detail link
IsListingAnchor(href) ==
    /\ ~HasPromoView(href)
    /\ href.page > 0 \/ href.type # "" \/ href.status # ""
    /\ href.race = RACE_ID
    /\ href.path \in {PROMO_LIST_URLS[i] : i \in 1..Len(PROMO_LIST_URLS)}

\* the href carries page= or type= and /promo/races/, its target is of the
\* crawled race, and it is not a detail link
IsPromoRacesAnchor(href) ==
    /\ ~HasPromoView(href)
    /\ href.page > 0 \/ href.type # ""
    /\ href.race = RACE_ID
    /\ href.path \in {"/promo/races/{race_id}/slots", "/promo/races/{race_id}"}

\* the tasks of the pagination anchors that the pages of the model carry
FollowedTasks ==
    {Task("GET", WithPage(ListUrl("/promo/races/{race_id}/slots"), k), None) :
        k \in 1..(MaxPromoPages + 2)}

\* a queued task is issued, or the loop ends on the spent budget
IssuedOrBudgetSpent ==
    \A t \in FollowedTasks :
        (pc = "fetch" /\ InQueue(t, queue))
            ~> (t \in visited \/ (pc = "summary" /\ request_count >= max_requests))

\* C23 as stated: every anchor of a fetched page that carries a page or filter
\* parameter, is on a listing path of the crawled race and is not a detail link
\* has its GET task in the queue after the page was processed, and a queued
\* task is issued unless it was issued before or the budget runs out.
C23_ListingAnchorsFollowed ==
    /\ [][ \A page \in AnswerPages : FetchOk(page) =>
              \A i \in 1..Len(page.anchors) :
                  IsListingAnchor(page.anchors[i].href) =>
                      InQueue(Task("GET", page.anchors[i].href, None), queue') ]_vars
    /\ IssuedOrBudgetSpent

\* C23 as amended: every anchor of a fetched page whose href carries page= or
\* type= and the /promo/races/ path, whose target is of the crawled race and
\* which is not a detail link has its GET task at the tail of the queue after
\* the page was processed, and a queued task is issued unless it was issued
\* before or the budget runs out.
C23_PromoRacesAnchorsFollowed ==
    /\ [][ \A page \in AnswerPages : FetchOk(page) =>
              \A i \in 1..Len(page.anchors) :
                  IsPromoRacesAnchor(page.anchors[i].href) =>
                      \E k \in Len(queue)..Len(queue') :
                          queue'[k] = Task("GET", page.anchors[i].href, None) ]_vars
    /\ IssuedOrBudgetSpent

\* a page that no seeded task asks for was requested because an anchor of an
\* earlier response pointed to it, and the crawl went on
C23_Witness ==
    /\ pc = "fetch"
    /\ \E i \in 1..Len(issued) :
          /\ issued[i].url.page > MaxPromoPages
          /\ IsPromoRacesAnchor(issued[i].url)
          /\ i < Len(issued)

\* the value of an option: its value attribute or, without one, its text
ValueOf(option) == IF option.value # None THEN Val(option.value) ELSE option.text

\* C24: the task made of an hx-post form carries in its payload the name and
\* value of every named input that is not an unchecked checkbox or radio, and
\* for every named select the value of its selected option or, when none is
\* selected, of its first option.
C24_FormPayload ==
    [][ (site.kind = "form" /\ FetchOk(site.page)) =>
            LET form == site.page.directives[1]
                t == queue'[Len(queue')]
            IN  /\ t.method = "POST"
                /\ t.url = form.url
                /\ \A i \in 1..Len(form.inputs) :
                      LET input == form.inputs[i]
                      IN  (input.name # None /\ ~(input.type \in {"checkbox", "radio"} /\ ~input.checked))
                              => <<Val(input.name), input.value>> \in PairSet(t.payload)
                /\ \A i \in 1..Len(form.selects) :
                      LET select == form.selects[i]
                          picked == {j \in 1..Len(select.options) : select.options[j].selected}
                      IN  (select.name # None /\ select.options # <<>>) =>
                              \E j \in 1..Len(select.options) :
                                  /\ IF picked = {} THEN j = 1 ELSE j \in picked
                                  /\ <<Val(select.name), ValueOf(select.options[j])>>
                                        \in PairSet(t.payload) ]_vars

\* the detail pages of all sites
AllDetailPages == ExtractPages \cup DetailPages

\* neither a code field, nor the table-cell anchor, nor a text node of the
\* strict pattern gives a code
YieldsNoCode(html) ==
    /\ html.id_code = None \/ html.id_code = Some(<<>>)
    /\ html.name_code = None \/ html.name_code = Some(<<>>)
    /\ \/ html.table_anchor = None
       \/ html.table_anchor = Some(<<>>)
       \/ Upper(Val(html.table_anchor)) = S_MYRACE
    /\ \A i \in 1..Len(html.strings) :
          ~(IsStrictCode(html.strings[i]) /\ html.strings[i] # S_MYRACE)

\* "promo-<id>" for the detail URL of a record
SyntheticCode(url) == S_promo_ \o Str(url.n)

Tries(occ) ==
    << _extract_first_int(occ.cell), _extract_first_int(occ.dd), _extract_first_int(occ.parent_dd) >>
    \o [i \in 1..Len(occ.siblings) |-> _extract_first_int(Some(occ.siblings[i]))]
    \o << _extract_first_int(occ.following) >>

RECURSIVE AllTries(_)
AllTries(labels) == IF labels = <<>> THEN <<>> ELSE Tries(Head(labels)) \o AllTries(Tail(labels))

\* the first value of tries that is an integer; None when there is none
FirstParsed(tries) ==
    IF \A k \in 1..Len(tries) : tries[k] = None THEN None
    ELSE tries[CHOOSE k \in 1..Len(tries) : tries[k] # None /\ \A j \in 1..(k - 1) : tries[j] = None]

\* C26: the usage of a record made of a fetched detail page is the integer of
\* the first strategy, in the fixed order, that parses one beside a label; no
\* later strategy changes it; it is None when no strategy parses an integer or
\* the page has no label.
C26_FirstStrategyWins ==
    [][ \A html \in AllDetailPages : DetailFetchOk(html) =>
            LET info == results'[Len(results')]
            IN  /\ info.usage_left = FirstParsed(AllTries(html.labels))
                /\ html.labels = <<>> => info.usage_left = None ]_vars

\* a record with the usage 50: it stands in the third following sibling of the
\* label, after the table cell, the dd elements and two siblings gave nothing
C26_Witness ==
    /\ site.kind = "detail"
    /\ results # <<>>
    /\ results[1].usage_left = Some(50)

\* the queue the seeder leaves, for each iteration order of the sets
SeededTasks == [seed \in HashSeeds |-> SeedQueue(seed)]

\* C27: the budget is at least the seed count; while seeded tasks are in the
\* queue they stand at its head, in the order of their enqueue; and when the
\* fetch loop has ended every task the seeder enqueued has been issued.
C27_SeededTasksIssued ==
    /\ pc \in {"fetch", "summary"} => seed_count <= max_requests
    /\ (pc = "fetch" /\ popped < seed_count) =>
          /\ Len(queue) >= seed_count - popped
          /\ queue[1] = SeededTasks[hash_seed][popped + 1]
          /\ queue[seed_count - popped] = SeededTasks[hash_seed][seed_count]
    /\ pc = "summary" =>
          \A i \in 1..Len(SeededTasks[hash_seed]) : InQueue(SeededTasks[hash_seed][i], issued)

\* the loop has ended on the spent budget, its pages having added more tasks
\* than the budget allowed, and the last seeded task was issued before tasks
\* that pages had added
C27_Witness ==
    /\ pc = "summary"
    /\ queue # <<>>
    /\ request_count = max_requests
    /\ \E i \in 1..Len(issued) :
          /\ issued[i] = SeededTasks[hash_seed][seed_count]
          /\ i < Len(issued)
          /\ issued[Len(issued)].url.page > MaxPromoPages

\* C28: every record of the returned list carries as discount_percent the
\* discount of the link of its URL, whether its detail page was fetched or not.
C28_DiscountCarried ==
    pc \in {"returned", "reported"} =>
        /\ Len(promos) = Len(links)
        /\ \A i \in 1..Len(promos) :
              /\ promos[i].url = links[i].url
              /\ promos[i].discount_percent = links[i].discount

(***************************************************************************)
(* /checkpromos on the event loop.  The worker thread invokes the sink     *)
(* (lines 752-760), which hands create_task(_edit_progress(...)) to the    *)
(* loop; the loop runs its ready callbacks in the order they were handed   *)
(* over; an edit of the progress message is a request to Telegram that is  *)
(* applied, or refused, some time after it was sent.  The command awaits   *)
(* each of its own edits; nothing awaits the tasks the sink creates.       *)
(***************************************************************************)
MaxCalls == 2

\* lines 744-750: the text _edit_progress builds
ProgressText(step, pending, current_url) ==
    [kind |-> "progress", step |-> step,
     total |-> IF step + pending # 0 THEN Some(step + pending) ELSE None,
     url |-> IF current_url = NoUrl THEN None ELSE Some(current_url)]

\* line 786: the number of promos found
FoundText(ps) == [kind |-> "found", step |-> Len(ps), total |-> None, url |-> None]

\* lines 765, 772, 777, 798 and 878: the last text the command sets
FinalText(outcome) ==
    IF outcome.kind # "promos"
    THEN [kind |-> outcome.kind, step |-> 0, total |-> None, url |-> None]
    ELSE LET r == Report(outcome.promos)
         IN  [kind |-> r.status,
              step |-> IF r.status = "report" THEN r.totals.total_codes ELSE 0,
              total |-> None, url |-> None]

\* what asyncio.to_thread(_gather_promos_with_usage, ...) ends with: the
\* FileNotFoundError of a missing cookie file, another exception, or a list
ThreadOutcomes ==
    { [kind |-> "missing", promos |-> <<>>], [kind |-> "error", promos |-> <<>>] }
    \cup { [kind |-> "promos", promos |-> ps] :
             ps \in { <<>>,
                      << PromoUsageInfo(Some(S_X), Some(0), ViewUrl(1), None) >>,
                      << PromoUsageInfo(Some(S_X), Some(5), ViewUrl(1), None) >> } }

loop_rest ==
    << pc, site, hash_seed, rich_left, links, results, promos, report, seen,
       detail_failed, crawl_locals, progress_cb, sent, frames, wizard, side_vars >>

\* lines 1512 and 1527 with lines 752-760: the crawl invokes the sink; an
\* invocation the throttle lets through hands create_task to the loop
WorkerCall ==
    /\ loop.worker = "running"
    /\ Len(calls) < MaxCalls
    /\ \E d \in Durations, pending \in 0..1, url \in {NoUrl, ViewUrl(1)} :
          LET args == [step |-> Len(calls) + 1, pending |-> pending, url |-> url]
              ps == Invoke(Tick(progress_state, d), args, url # NoUrl)
          IN  /\ progress_state' = ps
              /\ calls' = Append(calls, args)
              /\ loop' = IF ps.accepted
                         THEN [loop EXCEPT !.ready = Append(@, [kind |-> "create_task",
                                   text |-> ProgressText(args.step, args.pending, args.url)])]
                         ELSE loop
    /\ UNCHANGED loop_rest

\* line 763: the thread ends; its future hands its result to the loop
WorkerReturn ==
    /\ loop.worker = "running"
    /\ \E outcome \in ThreadOutcomes :
          loop' = [loop EXCEPT !.worker = "returned", !.outcome = Some(outcome),
                               !.ready = Append(@, [kind |-> "set_result", text |-> CheckingText])]
    /\ UNCHANGED << gather_vars, frames, wizard, side_vars >>

\* lines 757-760: asyncio.create_task schedules the first step of the task
RunCreateTask ==
    /\ loop.ready # <<>>
    /\ Head(loop.ready).kind = "create_task"
    /\ loop' = [loop EXCEPT !.ready = Append(Tail(@), [Head(@) EXCEPT !.kind = "step"])]
    /\ UNCHANGED << gather_vars, frames, wizard, side_vars >>

\* lines 750 and 737: the task sends its edit and waits for the answer
RunEditStep ==
    /\ loop.ready # <<>>
    /\ Head(loop.ready).kind = "step"
    /\ loop' = [loop EXCEPT !.ready = Tail(@), !.in_flight = @ \cup {Head(loop.ready).text}]
    /\ UNCHANGED << gather_vars, frames, wizard, side_vars >>

\* line 763: the future of the thread is done and wakes the command
RunSetResult ==
    /\ loop.ready # <<>>
    /\ Head(loop.ready).kind = "set_result"
    /\ loop' = [loop EXCEPT !.ready = Append(Tail(@), [Head(@) EXCEPT !.kind = "wakeup"])]
    /\ UNCHANGED << gather_vars, frames, wizard, side_vars >>

\* the command sends an edit it awaits (line 737 through _set_progress)
SetProgress(l, text, cmd) == [l EXCEPT !.cmd_edit = Some(text), !.cmd = cmd]

\* lines 763-878: the command runs from one await to the next
RunWakeup ==
    /\ loop.ready # <<>>
    /\ Head(loop.ready).kind = "wakeup"
    /\ LET l == [loop EXCEPT !.ready = Tail(@)]
           outcome == Val(loop.outcome)
           final == SetProgress(l, FinalText(outcome), "final_edit")
       IN  loop' =
             CASE loop.cmd = "to_thread" ->
                    IF outcome.kind = "promos" /\ outcome.promos # <<>>
                    THEN SetProgress(l, FoundText(outcome.promos), "found_edit")
                    ELSE final
               [] loop.cmd = "found_edit" ->
                    IF Active(outcome.promos) = <<>>
                    THEN final
                    ELSE [l EXCEPT !.cmd = "replies"]
               [] loop.cmd = "replies" -> final
               [] OTHER -> [l EXCEPT !.cmd = "done"]
    /\ UNCHANGED << gather_vars, frames, wizard, side_vars >>

\* lines 849 and 872: reply_text is answered
ReplyAnswered ==
    /\ loop.cmd = "replies"
    /\ \A i \in 1..Len(loop.ready) : loop.ready[i].kind # "wakeup"
    /\ loop' = [loop EXCEPT !.ready = Append(@, [kind |-> "wakeup", text |-> CheckingText])]
    /\ UNCHANGED << gather_vars, frames, wizard, side_vars >>

\* Telegram applies an edit a task of the sink has sent
ApplyProgressEdit ==
    /\ \E text \in loop.in_flight :
          loop' = [loop EXCEPT !.in_flight = @ \ {text}, !.message = text]
    /\ UNCHANGED << gather_vars, frames, wizard, side_vars >>

\* lines 738-739: the edit of a task fails and the exception is logged
ProgressEditFails ==
    /\ \E text \in loop.in_flight : loop' = [loop EXCEPT !.in_flight = @ \ {text}]
    /\ UNCHANGED << gather_vars, frames, wizard, side_vars >>

\* Telegram applies the edit the command awaits, and the command is woken
ApplyCommandEdit ==
    /\ loop.cmd_edit # None
    /\ loop' = [loop EXCEPT !.cmd_edit = None, !.message = Val(loop.cmd_edit),
                            !.final_applied = (loop.cmd = "final_edit"),
                            !.ready = Append(@, [kind |-> "wakeup", text |-> CheckingText])]
    /\ UNCHANGED << gather_vars, frames, wizard, side_vars >>

\* lines 738-739: the edit the command awaits fails
CommandEditFails ==
    /\ loop.cmd_edit # None
    /\ loop' = [loop EXCEPT !.cmd_edit = None,
                            !.ready = Append(@, [kind |-> "wakeup", text |-> CheckingText])]
    /\ UNCHANGED << gather_vars, frames, wizard, side_vars >>

InitEdits ==
    /\ pc = "to_thread"
    /\ site \in {[kind |-> "sparse", dead |-> {}]}
    /\ hash_seed = "forward"
    /\ rich_left = 0
    /\ queue = <<>>
    /\ visited = {}
    /\ request_count = 0
    /\ max_requests = 0
    /\ results_order = <<>>
    /\ results_map = NoMap
    /\ links = <<>>
    /\ results = <<>>
    /\ promos = <<>>
    /\ report = NoReport
    /\ seed_count = 0
    /\ issued = <<>>
    /\ skipped = {}
    /\ seen = <<>>
    /\ detail_failed = {}
    /\ progress_cb = "checkpromos"
    /\ calls = <<>>
    /\ progress_state = NoProgress
    /\ sent = {}
    /\ popped = 0
    /\ frames = NoFrames
    /\ loop = NoLoop
    /\ jar = NoJar
    /\ monitor = NoMonitor
    /\ metrics = NoMetrics
    /\ goals = NoGoals
    /\ wizard = NoWizard

NextEdits ==
    \/ WorkerCall
    \/ WorkerReturn
    \/ RunCreateTask
    \/ RunEditStep
    \/ RunSetResult
    \/ RunWakeup
    \/ ReplyAnswered
    \/ ApplyProgressEdit
    \/ ProgressEditFails
    \/ ApplyCommandEdit
    \/ CommandEditFails

SpecEdits == InitEdits /\ [][NextEdits]_vars

STATE_CODE == "await_code"

STATE_SELECT_DISCOUNT == "select_discount"

STATE_SELECT_LIMIT == "select_limit"

STATE_SELECT_SLOT == "select_slot"

STATE_CUSTOM_DISCOUNT == "await_custom_discount"

STATE_CUSTOM_LIMIT == "await_custom_limit"

STATE_CUSTOM_SLOT == "await_custom_slot"

STATE_SUMMARY == "summary"

\* "all" and "custom"
S_all == <<97, 108, 108>>

S_custom == <<99, 117, 115, 116, 111, 109>>

DEFAULT_SLOT_VALUE == S_all

DEFAULT_USAGE_LIMIT == 1

AllDigits(s, i) == i <= Len(s) /\ \A j \in i..Len(s) : IsDigit(s[j])

\* int(text) of a stripped string: Some(value), or None for ValueError
int(text) ==
    IF AllDigits(text, 1) THEN Some(DigitRun(text, 1, 0))
    ELSE IF text # <<>> /\ text[1] = 45 /\ AllDigits(text, 2) THEN Some(0 - DigitRun(text, 2, 0))
    ELSE IF text # <<>> /\ text[1] = 43 /\ AllDigits(text, 2) THEN Some(DigitRun(text, 2, 0))
    ELSE None

CallbackData(action, arg) == [action |-> action, arg |-> arg]

\* lines 936-945, 955-964, 974-987 and 1009-1014: the keyboards
DiscountKeyboard ==
    { CallbackData("discount", Some(a)) : a \in {Str(100), Str(70), Str(50), S_custom} }

LimitKeyboard ==
    { CallbackData("limit", Some(a)) : a \in {Str(1), Str(5), Str(10), S_custom} }

SlotKeyboard ==
    { CallbackData("slot", Some(a)) : a \in {S_all, DEFAULT_SLOT_VALUE, S_custom} }

SummaryKeyboard == { CallbackData("create", None), CallbackData("cancel", None) }

\* the texts a user sends, stripped: "" (no code, no slots, no integer) and "5"
WizardTexts == {<<>>, S_5}

WizardFields == {"code", "discount", "usage_limit", "slot_value"}

\* a state-clearing step that forgets the state only
_wizard_clear_state_only(w) == [w EXCEPT !.state = None, !.confirmed = {}]

\* lines 893-895
_wizard_clear(w) == [w EXCEPT !.state = None, !.data = None, !.confirmed = {}]

\* data[field] = value, by the user's answer
SetField(w, field, value) ==
    [w EXCEPT !.data = Some([Val(@) EXCEPT ![field] = value]), !.confirmed = @ \cup {field}]

\* lines 934-950
_wizard_prompt_discount(w) ==
    [w EXCEPT !.state = Some(STATE_SELECT_DISCOUNT), !.keyboards = @ \cup DiscountKeyboard]

\* lines 953-969
_wizard_prompt_limit(w) ==
    [w EXCEPT !.state = Some(STATE_SELECT_LIMIT), !.keyboards = @ \cup LimitKeyboard]

\* lines 972-992
_wizard_prompt_slot(w) ==
    [w EXCEPT !.state = Some(STATE_SELECT_SLOT), !.keyboards = @ \cup SlotKeyboard]

\* lines 1006-1019
_wizard_show_summary(w) ==
    [w EXCEPT !.state = Some(STATE_SUMMARY), !.keyboards = @ \cup SummaryKeyboard]

\* lines 1109-1117: _handle_create is called; the history keeps the state
\* of the wizard at the call and whether data["code"] held a code
Launch(w) ==
    [w EXCEPT !.launched = Some([state |-> w.state, confirmed |-> w.confirmed,
                                 code |-> IF Val(w.data).code \in {None, Some(<<>>)}
                                          THEN "missing" ELSE "given"])]

\* lines 162 and 901: ADMIN_IDS and user_id not in ADMIN_IDS
Refused(w) == w.admin_ids # {} /\ w.user \notin w.admin_ids

\* a creation that asks nobody
_handle_create_unchecked(w, code, cookies) ==
    IF ~cookies THEN w ELSE [w EXCEPT !.ran = TRUE]

\* lines 152-214: the admin check, the cookie file check, then the subprocess
\* (line 184); its exit status only changes the reply
_handle_create(w, code, cookies) ==
    IF Refused(w) THEN [w EXCEPT !.refused = TRUE]
    ELSE IF ~cookies THEN w
    ELSE [w EXCEPT !.ran = TRUE]

\* lines 898-923: /promowizard, with or without cookie file
promo_wizard_start ==
    /\ \E cookies \in BOOLEAN :
          wizard' =
            IF Refused(wizard) \/ ~cookies THEN wizard
            ELSE [_wizard_clear(wizard) EXCEPT
                    !.data = Some([code |-> None, discount |-> 100,
                                   usage_limit |-> DEFAULT_USAGE_LIMIT,
                                   slot_value |-> DEFAULT_SLOT_VALUE]),
                    !.state = Some(STATE_CODE)]
    /\ UNCHANGED << gather_vars, frames, loop, side_vars >>

\* lines 926-931: /cancelpromo
promo_wizard_cancel ==
    /\ wizard' = IF wizard.data = None THEN wizard ELSE _wizard_clear(wizard)
    /\ UNCHANGED << gather_vars, frames, loop, side_vars >>

\* lines 1022-1064: a text message that is not a command
promo_wizard_text ==
    /\ \E text \in WizardTexts :
          LET state == wizard.state
              value == int(text)
          IN  wizard' =
                IF state = None THEN wizard
                ELSE IF wizard.data = None THEN _wizard_clear(wizard)
                ELSE IF state = Some(STATE_CODE)
                THEN IF text = <<>> THEN wizard
                     ELSE _wizard_prompt_discount(SetField(wizard, "code", Some(text)))
                ELSE IF state = Some(STATE_CUSTOM_DISCOUNT)
                THEN IF value = None THEN wizard
                     ELSE _wizard_prompt_limit(SetField(wizard, "discount", Val(value)))
                ELSE IF state = Some(STATE_CUSTOM_LIMIT)
                THEN IF value = None THEN wizard
                     ELSE _wizard_prompt_slot(SetField(wizard, "usage_limit", Max(1, Val(value))))
                ELSE IF state = Some(STATE_CUSTOM_SLOT)
                THEN IF text = <<>> THEN wizard
                     ELSE _wizard_show_summary(SetField(wizard, "slot_value", text))
                ELSE wizard
    /\ UNCHANGED << gather_vars, frames, loop, side_vars >>

\* lines 1067-1121 for one callback query
Callback(w, query, cookies) ==
    LET action == query.action
        given == query.arg # None /\ query.arg # Some(S_custom)
    IN  IF w.data = None THEN w
        ELSE IF action = "discount"
        THEN IF given
             THEN _wizard_prompt_limit(SetField(w, "discount", Val(int(Val(query.arg)))))
             ELSE [w EXCEPT !.state = Some(STATE_CUSTOM_DISCOUNT)]
        ELSE IF action = "limit"
        THEN IF given
             THEN _wizard_prompt_slot(
                      SetField(w, "usage_limit", Max(1, Val(int(Val(query.arg))))))
             ELSE [w EXCEPT !.state = Some(STATE_CUSTOM_LIMIT)]
        ELSE IF action = "slot"
        THEN IF given
             THEN _wizard_show_summary(SetField(w, "slot_value", Val(query.arg)))
             ELSE [w EXCEPT !.state = Some(STATE_CUSTOM_SLOT)]
        ELSE IF action = "create"
        THEN IF Val(w.data).code \in {None, Some(<<>>)} THEN w
             ELSE _wizard_clear(_handle_create(Launch(w), Val(Val(w.data).code), cookies))
        ELSE _wizard_clear(w)

\* lines 1067-1121: a button of a keyboard in the chat is pressed
promo_wizard_callback ==
    /\ \E query \in wizard.keyboards, cookies \in BOOLEAN :
          wizard' = Callback(wizard, query, cookies)
    /\ UNCHANGED << gather_vars, frames, loop, side_vars >>

\* lines 217-220
_parse_args(args, expected, optional) ==
    IF Len(args) < expected \/ Len(args) > expected + optional THEN None ELSE Some(args)

\* context.args of a command: words, none of them empty
CommandArgs ==
    { <<>>, <<S_X>>, <<S_X, S_5>>, <<S_X, S_X>>, <<S_X, S_5, S_5>>, <<S_X, S_5, S_X>>,
      <<S_X, S_5, S_5, S_X>>, <<S_X, S_5, S_5, S_X, S_X>> }

\* lines 237-250: /promo100 <code> [limit]
promo100 ==
    /\ \E args \in CommandArgs, cookies \in BOOLEAN :
          wizard' =
            IF _parse_args(args, 1, 1) = None THEN wizard
            ELSE IF Len(args) = 2 /\ int(args[2]) = None THEN wizard
            ELSE _handle_create(wizard, args[1], cookies)
    /\ UNCHANGED << gather_vars, frames, loop, side_vars >>

\* lines 253-281: /promo <code> <discount> [limit] [slots]
promo ==
    /\ \E args \in CommandArgs, cookies \in BOOLEAN :
          wizard' =
            IF _parse_args(args, 2, 2) = None THEN wizard
            ELSE IF int(args[2]) = None THEN wizard
            ELSE IF Len(args) >= 3 /\ int(args[3]) = None THEN wizard
            ELSE _handle_create(wizard, args[1], cookies)
    /\ UNCHANGED << gather_vars, frames, loop, side_vars >>

\* the users of the bot and the values of ADMIN_IDS (lines 75-80)
WizardUsers == {"admin", "other"}

AdminIdSets == {{}, {"admin"}}

InitWizard ==
    /\ pc = "wizard"
    /\ site \in {[kind |-> "sparse", dead |-> {}]}
    /\ hash_seed = "forward"
    /\ rich_left = 0
    /\ queue = <<>>
    /\ visited = {}
    /\ request_count = 0
    /\ max_requests = 0
    /\ results_order = <<>>
    /\ results_map = NoMap
    /\ links = <<>>
    /\ results = <<>>
    /\ promos = <<>>
    /\ report = NoReport
    /\ seed_count = 0
    /\ issued = <<>>
    /\ skipped = {}
    /\ seen = <<>>
    /\ detail_failed = {}
    /\ progress_cb = "none"
    /\ calls = <<>>
    /\ progress_state = NoProgress
    /\ sent = {}
    /\ popped = 0
    /\ frames = NoFrames
    /\ loop = NoLoop
    /\ jar = NoJar
    /\ monitor = NoMonitor
    /\ metrics = NoMetrics
    /\ goals = NoGoals
    /\ wizard \in { [NoWizard EXCEPT !.user = u, !.admin_ids = ids] :
                      u \in WizardUsers, ids \in AdminIdSets }

NextWizard ==
    \/ promo_wizard_start
    \/ promo_wizard_cancel
    \/ promo_wizard_text
    \/ promo_wizard_callback

SpecWizard == InitWizard /\ [][NextWizard]_vars

\* lines 1686-1700: every handler that can reach _handle_create
NextCreate ==
    \/ promo_wizard_start
    \/ promo_wizard_cancel
    \/ promo_wizard_text
    \/ promo_wizard_callback
    \/ promo100
    \/ promo

SpecCreate == InitWizard /\ [][NextCreate]_vars

\* C30: a creation launched by the promo wizard was launched in the summary
\* state, after code, discount, usage limit and slots had each been confirmed
\* since the wizard was last started.
C30_CreateOnlyFromSummary ==
    wizard.launched # None =>
        /\ Val(wizard.launched).state = Some(STATE_SUMMARY)
        /\ Val(wizard.launched).confirmed = WizardFields

C32_OnlyAdminsCreate ==
    (wizard.admin_ids # {} /\ wizard.user \notin wizard.admin_ids) => ~wizard.ran

C32_Witness ==
    /\ wizard.admin_ids # {}
    /\ wizard.user \notin wizard.admin_ids
    /\ wizard.refused
    /\ ~wizard.ran

(***************************************************************************)
(* /setcookies and ingest_cookies.  A message is what the handler reads of *)
(* it: whether update.message is there, whether its text starts with "/",  *)
(* and the value json.loads gives for the stripped text (None when there   *)
(* is no text left).  A line of the file is a comment or the fields of a   *)
(* cookie that the claims can tell apart.  A cookie of the                 *)
(* array is an object with a domain and a name, either possibly empty, or  *)
(* something that is no object.                                            *)
(***************************************************************************)
MaxCookies == 2

\* "m" and ".m" (domains), "sid" (a cookie name)
S_m == <<109>>

S_dot_m == <<46, 109>>

S_sid == <<115, 105, 100>>

Cookie(domain, name, host_only) ==
    [object |-> TRUE, domain |-> domain, name |-> name, host_only |-> host_only]

NotACookie == [object |-> FALSE, domain |-> <<>>, name |-> <<>>, host_only |-> FALSE]

CookieItems ==
    { Cookie(d, n, h) : d \in {<<>>, S_m, S_dot_m}, n \in {<<>>, S_sid}, h \in BOOLEAN }
    \cup {NotACookie}

CookieLists == UNION { [1..n -> CookieItems] : n \in 0..MaxCookies }

\* the values json.loads can give: an object with or without "cookies", an
\* array, or anything else
JsonValues ==
    { [type |-> "dict", has_cookies |-> TRUE, cookies_is_list |-> TRUE, items |-> l] :
        l \in CookieLists }
    \cup { [type |-> "list", has_cookies |-> FALSE, cookies_is_list |-> FALSE, items |-> l] :
        l \in CookieLists }
    \cup { [type |-> "dict", has_cookies |-> TRUE, cookies_is_list |-> FALSE, items |-> <<>>],
           [type |-> "dict", has_cookies |-> FALSE, cookies_is_list |-> FALSE, items |-> <<>>],
           [type |-> "other", has_cookies |-> FALSE, cookies_is_list |-> FALSE, items |-> <<>>] }

\* the text is no JSON: json.loads raises JSONDecodeError
InvalidJson ==
    [type |-> "invalid", has_cookies |-> FALSE, cookies_is_list |-> FALSE, items |-> <<>>]

CookieMessages ==
    { [has_message |-> FALSE, slash |-> FALSE, json |-> None],
      [has_message |-> TRUE, slash |-> TRUE, json |-> None],
      [has_message |-> TRUE, slash |-> FALSE, json |-> None],
      [has_message |-> TRUE, slash |-> FALSE, json |-> Some(InvalidJson)] }
    \cup { [has_message |-> TRUE, slash |-> FALSE, json |-> Some(v)] : v \in JsonValues }

\* lines 1125-1128: the two header lines
NetscapeHeader ==
    << [comment |-> "# Netscape HTTP Cookie File", domain |-> <<>>, tailmatch |-> "", name |-> <<>>],
       [comment |-> "# Generated by telegram bot", domain |-> <<>>, tailmatch |-> "", name |-> <<>>] >>

\* lines 1130-1157 for one cookie: its line, or nothing
NetscapeLine(item) ==
    IF item.domain = <<>> \/ item.name = <<>> THEN <<>>
    ELSE << [comment |-> "",
             domain |-> IF item.host_only \/ item.domain[1] = 46
                        THEN item.domain ELSE <<46>> \o item.domain,
             tailmatch |-> IF item.host_only THEN "FALSE" ELSE "TRUE",
             name |-> item.name] >>

RECURSIVE NetscapeLines(_, _)
NetscapeLines(items, i) ==
    IF i > Len(items) THEN <<>> ELSE NetscapeLine(items[i]) \o NetscapeLines(items, i + 1)

\* lines 1124-1157
_cookies_to_netscape(items) == NetscapeHeader \o NetscapeLines(items, 1)

\* what the file system does to cookies_path.write_text (line 1662): it
\* writes all of it, refuses to open the file, or fails after it has opened
\* and emptied the file and written `kept` of the lines
WriteOutcomes ==
    { [kind |-> "ok", kept |-> 0], [kind |-> "open_fails", kept |-> 0] }
    \cup { [kind |-> "write_fails", kept |-> k] : k \in 0..2 }

File(lines) == [kind |-> "file", lines |-> lines]

\* line 1662: Path.write_text opens the file for writing, which empties it,
\* and then writes
write_text(file, lines, io) ==
    IF io.kind = "ok" THEN File(lines)
    ELSE IF io.kind = "open_fails" THEN file
    ELSE File(SubSeq(lines, 1, io.kept))

\* lines 1569-1573: /setcookies
setcookies ==
    /\ jar' = [jar EXCEPT !.pending = TRUE]
    /\ UNCHANGED << gather_vars, frames, loop, wizard, monitor, metrics, goals >>

\* lines 1609-1673 for one message and one behaviour of the file system
Ingest(j, message, io) ==
    LET value == Val(message.json)
        items == value.items
        lines == _cookies_to_netscape(items)
    IN  IF wizard.state # None THEN j
        ELSE IF ~j.pending \/ ~message.has_message \/ message.slash THEN j
        ELSE IF message.json = None THEN j
        ELSE IF value.type = "invalid" THEN [j EXCEPT !.reply = "json"]
        ELSE IF ~(value.type = "dict" /\ value.has_cookies) /\ value.type # "list"
        THEN [j EXCEPT !.reply = "structure"]
        ELSE IF value.type = "dict" /\ ~value.cookies_is_list
        THEN [j EXCEPT !.reply = "not_list"]
        ELSE IF \E i \in 1..Len(items) : ~items[i].object
        THEN [j EXCEPT !.reply = "raised"]
        ELSE IF Len(lines) <= 2 THEN [j EXCEPT !.reply = "no_cookie"]
        ELSE IF j.file.kind = "dir" THEN [j EXCEPT !.reply = "directory"]
        ELSE IF io.kind # "ok"
        THEN [j EXCEPT !.file = write_text(j.file, lines, io), !.reply = "write_failed"]
        ELSE [j EXCEPT !.file = write_text(j.file, lines, io), !.reply = "saved",
                       !.pending = FALSE]

\* lines 1609-1673: a text message that is not a command reaches the handler
ingest_cookies ==
    /\ \E message \in CookieMessages, io \in WriteOutcomes :
          jar' = Ingest(jar, message, io)
    /\ UNCHANGED << gather_vars, frames, loop, wizard, monitor, metrics, goals >>

\* the file at COOKIES_PATH before /setcookies: none, a directory, or a file
\* written earlier
JarFiles ==
    { [kind |-> "missing", lines |-> <<>>], [kind |-> "dir", lines |-> <<>>],
      File(_cookies_to_netscape(<< Cookie(S_m, S_sid, TRUE) >>)) }

InitCookies ==
    /\ pc = "cookies"
    /\ site \in {[kind |-> "sparse", dead |-> {}]}
    /\ hash_seed = "forward"
    /\ rich_left = 0
    /\ queue = <<>>
    /\ visited = {}
    /\ request_count = 0
    /\ max_requests = 0
    /\ results_order = <<>>
    /\ results_map = NoMap
    /\ links = <<>>
    /\ results = <<>>
    /\ promos = <<>>
    /\ report = NoReport
    /\ seed_count = 0
    /\ issued = <<>>
    /\ skipped = {}
    /\ seen = <<>>
    /\ detail_failed = {}
    /\ progress_cb = "none"
    /\ calls = <<>>
    /\ progress_state = NoProgress
    /\ sent = {}
    /\ popped = 0
    /\ frames = NoFrames
    /\ loop = NoLoop
    /\ wizard \in { NoWizard, [NoWizard EXCEPT !.state = Some(STATE_CODE)] }
    /\ jar \in { [NoJar EXCEPT !.file = f] : f \in JarFiles }
    /\ monitor = NoMonitor
    /\ metrics = NoMetrics
    /\ goals = NoGoals

NextCookies == setcookies \/ ingest_cookies

SpecCookies == InitCookies /\ [][NextCookies]_vars

\* C33: a message that ingest_cookies does not save leaves the pending flag
\* set and the cookie file as it was, and the flag is cleared only by a
\* message whose cookies were written to the file.
C33_RejectedKeepsFlagAndFile ==
    [][ /\ (ingest_cookies /\ jar.pending /\ jar'.reply # "saved")
              => jar'.pending /\ jar'.file = jar.file
        /\ (jar.pending /\ ~jar'.pending)
              => jar'.reply = "saved" /\ jar'.file.kind = "file" /\ Len(jar'.file.lines) > 2
      ]_vars

(***************************************************************************)
(* Money.  A Decimal quantized to 0.01 is the integer number of its        *)
(* hundredths.  str() of it writes the hundredths as two digits after the  *)
(* point; Decimal() of a string reads an optional "-", digits and at most  *)
(* one ".", and fails on anything else (InvalidOperation).                 *)
(***************************************************************************)
S_point == <<46>>

\* str(Decimal) of a non-negative amount quantized to 0.01
DecimalStr(cents) ==
    Str(cents \div 100) \o S_point \o <<48 + ((cents % 100) \div 10), 48 + (cents % 10)>>

\* the first position of a "." in s, or 0
RECURSIVE PointAt(_, _)
PointAt(s, i) == IF i > Len(s) THEN 0 ELSE IF s[i] = 46 THEN i ELSE PointAt(s, i + 1)

DigitAt(s, i) == IF i <= Len(s) THEN s[i] - 48 ELSE 0

\* Decimal(text).quantize(Decimal("0.01"), rounding=ROUND_HALF_UP) in
\* hundredths: Some(value), or None for InvalidOperation
Quantized(text) ==
    LET neg == text # <<>> /\ text[1] = 45
        body == IF neg THEN Tail(text) ELSE text
        dot == PointAt(body, 1)
        whole == IF dot = 0 THEN body ELSE SubSeq(body, 1, dot - 1)
        frac == IF dot = 0 THEN <<>> ELSE SubSeq(body, dot + 1, Len(body))
        valid == /\ \A i \in 1..Len(whole) : IsDigit(whole[i])
                 /\ \A i \in 1..Len(frac) : IsDigit(frac[i])
                 /\ Len(whole) + Len(frac) > 0
        cents == 100 * DigitRun(whole, 1, 0) + 10 * DigitAt(frac, 1) + DigitAt(frac, 2)
                 + (IF DigitAt(frac, 3) >= 5 THEN 1 ELSE 0)
    IN  IF ~valid THEN None ELSE Some(IF neg THEN 0 - cents ELSE cents)

(***************************************************************************)
(* run_monitor of race_income_watcher.py from its loop on (line 210).  A   *)
(* fetch gives the RaceMetrics of the race (revenue in hundredths, the     *)
(* number of participants) or raises.  The handler of SIGINT and SIGTERM   *)
(* can run between any two steps.                                          *)
(***************************************************************************)
MaxRaces == 2

RaceMetrics(participants, revenue) == [participants |-> participants, revenue |-> revenue]

\* revenues 0.00, 1.00 and 2.50; 5 or 6 participants
FetchedMetrics == { RaceMetrics(n, c) : n \in {5, 6}, c \in {0, 100, 250} }

\* what _load_race_ids returns
RaceLists == UNION { [1..n -> MonitorRaces] : n \in 0..MaxRaces }

\* lines 243-247 and 266-270 without updated_at
StateEntry(m) ==
    Some([revenue |-> DecimalStr(m.revenue), participants |-> Str(m.participants)])

\* what is sent to the admins (lines 257-265)
Notification(race, previous, current) ==
    Some([race |-> race, previous |-> previous, current |-> current])

\* a comparison that notifies and keeps the old entry
Observe_keep(st, race, m) ==
    LET previous_entry == st[race]
        previous_revenue == Quantized(Val(previous_entry).revenue)
    IN  IF previous_entry = None
        THEN [state |-> [st EXCEPT ![race] = StateEntry(m)], notified |-> None]
        ELSE IF Some(m.revenue) = previous_revenue
        THEN [state |-> [st EXCEPT ![race] =
                            Some([Val(@) EXCEPT !.participants = Str(m.participants)])],
              notified |-> None]
        ELSE [state |-> st,
              notified |-> Notification(race, Val(previous_revenue), m.revenue)]

\* lines 239-271: the metrics of one race against its entry
Observe(st, race, m) ==
    LET previous_entry == st[race]
        previous_revenue == Quantized(Val(previous_entry).revenue)
    IN  IF previous_entry = None
        THEN [state |-> [st EXCEPT ![race] = StateEntry(m)], notified |-> None]
        ELSE IF Some(m.revenue) = previous_revenue
        THEN [state |-> [st EXCEPT ![race] =
                            Some([Val(@) EXCEPT !.participants = Str(m.participants)])],
              notified |-> None]
        ELSE [state |-> [st EXCEPT ![race] = StateEntry(m)],
              notified |-> Notification(race, Val(previous_revenue), m.revenue)]

monitor_rest == << gather_vars, frames, loop, wizard, jar, metrics, goals >>

\* lines 199-202: _handle_signal
MonitorSignal ==
    /\ monitor.pc # "stopped"
    /\ ~monitor.stop_requested
    /\ monitor' = [monitor EXCEPT !.stop_requested = TRUE]
    /\ UNCHANGED monitor_rest

\* lines 210-232: the iteration loads the cookie file and the race list
IterationBegin ==
    /\ monitor.pc = "top"
    /\ \E cookie_file \in BOOLEAN, race_ids \in RaceLists :
          monitor' =
            IF ~cookie_file THEN [monitor EXCEPT !.pc = "sleep"]
            ELSE IF race_ids = <<>>
            THEN [monitor EXCEPT !.pc = IF monitor.stop_requested THEN "stopped" ELSE "sleep"]
            ELSE [monitor EXCEPT !.pc = "races", !.race_ids = race_ids, !.i = 1,
                                 !.done = <<>>]
    /\ UNCHANGED monitor_rest

\* a failed fetch that ends the iteration's loop over the races
MonitorFetchFails_break ==
    /\ monitor.pc = "races"
    /\ monitor.i <= Len(monitor.race_ids)
    /\ monitor' = [monitor EXCEPT !.i = Len(monitor.race_ids) + 1,
                                  !.done = Append(@, "failed"),
                                  !.last = [race |-> monitor.race_ids[monitor.i],
                                            fetched |-> None, notified |-> None]]
    /\ UNCHANGED monitor_rest

\* lines 234-238: fetch_race_metrics raises
MonitorFetchFails ==
    /\ monitor.pc = "races"
    /\ monitor.i <= Len(monitor.race_ids)
    /\ monitor' = [monitor EXCEPT !.i = @ + 1,
                                  !.done = Append(@, "failed"),
                                  !.last = [race |-> monitor.race_ids[monitor.i],
                                            fetched |-> None, notified |-> None]]
    /\ UNCHANGED monitor_rest

\* lines 234-271: fetch_race_metrics returns m
MonitorFetchOk(m) ==
    /\ monitor.pc = "races"
    /\ monitor.i <= Len(monitor.race_ids)
    /\ LET race_id == monitor.race_ids[monitor.i]
           r == Observe(monitor.state, race_id, m)
       IN  monitor' = [monitor EXCEPT !.i = @ + 1,
                                      !.state = r.state,
                                      !.done = Append(@, "compared"),
                                      !.last = [race |-> race_id, fetched |-> Some(m),
                                                notified |-> r.notified]]
    /\ UNCHANGED monitor_rest

MonitorFetch == \E m \in FetchedMetrics : MonitorFetchOk(m)

\* lines 273-283: the state is written, then the loop ends or sleeps
IterationEnd ==
    /\ monitor.pc = "races"
    /\ monitor.i > Len(monitor.race_ids)
    /\ monitor' = [monitor EXCEPT !.pc = IF monitor.stop_requested THEN "stopped" ELSE "sleep"]
    /\ UNCHANGED monitor_rest

\* lines 216-217, 224-225 and 283: time.sleep returns
SleepEnd ==
    /\ monitor.pc = "sleep"
    /\ monitor' = [monitor EXCEPT !.pc = "top"]
    /\ UNCHANGED monitor_rest

\* line 193: the state read at the start, empty or written by an earlier run
ReadStates ==
    { [r \in MonitorRaces |-> None],
      [r \in MonitorRaces |-> IF r = "1" THEN StateEntry(RaceMetrics(5, 100)) ELSE None] }

InitMonitor ==
    /\ pc = "monitor"
    /\ site \in {[kind |-> "sparse", dead |-> {}]}
    /\ hash_seed = "forward"
    /\ rich_left = 0
    /\ queue = <<>>
    /\ visited = {}
    /\ request_count = 0
    /\ max_requests = 0
    /\ results_order = <<>>
    /\ results_map = NoMap
    /\ links = <<>>
    /\ results = <<>>
    /\ promos = <<>>
    /\ report = NoReport
    /\ seed_count = 0
    /\ issued = <<>>
    /\ skipped = {}
    /\ seen = <<>>
    /\ detail_failed = {}
    /\ progress_cb = "none"
    /\ calls = <<>>
    /\ progress_state = NoProgress
    /\ sent = {}
    /\ popped = 0
    /\ frames = NoFrames
    /\ loop = NoLoop
    /\ wizard = NoWizard
    /\ jar = NoJar
    /\ monitor \in { [NoMonitor EXCEPT !.pc = "top", !.state = st] : st \in ReadStates }
    /\ metrics = NoMetrics
    /\ goals = NoGoals

\* the steps of run_monitor itself
MonitorStep ==
    \/ IterationBegin
    \/ MonitorFetchFails
    \/ MonitorFetch
    \/ IterationEnd
    \/ SleepEnd

NextMonitor ==
    \/ MonitorSignal
    \/ IterationBegin
    \/ MonitorFetchFails
    \/ MonitorFetch
    \/ IterationEnd
    \/ SleepEnd

SpecMonitor == InitMonitor /\ [][NextMonitor]_vars

\* A request has a timeout and a sleep ends, so run_monitor takes a step it
\* can take.
SpecMonitorFair == InitMonitor /\ [][NextMonitor]_vars /\ WF_vars(MonitorStep)

\* C34: a race whose metrics were fetched is notified exactly when it has
\* an entry whose revenue differs from the fetched one; a race without entry
\* gets one without a notification; after either the entry holds the fetched
\* revenue, so fetching the same revenue again notifies nothing.
C34_NotifyOnChangeOnly ==
    [][ \A m \in FetchedMetrics :
          MonitorFetchOk(m) =>
            LET race_id == monitor.race_ids[monitor.i]
                before == monitor.state[race_id]
                after == monitor'.state[race_id]
                sent_now == monitor'.last.notified
            IN  /\ sent_now # None
                      <=> (before # None /\ Val(before).revenue # DecimalStr(m.revenue))
                /\ sent_now # None =>
                      /\ DecimalStr(Val(sent_now).previous) = Val(before).revenue
                      /\ Val(sent_now).current = m.revenue
                /\ after # None
                /\ Val(after).revenue = DecimalStr(m.revenue)
                /\ Observe(monitor'.state, race_id, m).notified = None ]_vars

C34_Witness ==
    /\ monitor.last.notified # None
    /\ Val(monitor.last.notified).previous = 100
    /\ Val(monitor.last.notified).current = 250
    /\ Val(monitor.state[monitor.last.race]).revenue = DecimalStr(250)

\* C35: once the stop flag is set the monitor stops.
C35_StopsAfterSignal == monitor.stop_requested ~> monitor.pc = "stopped"

\* C36: a fetch that fails changes no entry, notifies nobody and goes on to
\* the next race of the iteration, and an iteration ends only when each of
\* its races was fetched.
C36_FailureSkipsOneRace ==
    [][ /\ MonitorFetchFails =>
              /\ monitor'.state = monitor.state
              /\ monitor'.last.notified = None
              /\ monitor'.pc = "races"
              /\ monitor'.race_ids = monitor.race_ids
              /\ monitor'.i = monitor.i + 1
        /\ IterationEnd => Len(monitor.done) = Len(monitor.race_ids) ]_vars

C36_Witness ==
    /\ monitor.pc = "sleep"
    /\ monitor.done = <<"failed", "compared">>
    /\ monitor.last.notified # None

(***************************************************************************)
(* fetch_race_metrics of race_metrics.py.  A URL is its characters; the    *)
(* summary URL of the race is /r1.  A response is what session.get gives:  *)
(* it raises, or it has a status, the URLs of the redirects it followed,   *)
(* its final URL, and a page with the two metric blocks, with blocks whose *)
(* text holds no number, or without them.                                  *)
(***************************************************************************)
DEFAULT_FETCH_RETRIES == 3

S_r1 == <<47, 114, 49>>
S_r1_slash == <<47, 114, 49, 47>>
S_r1_query == <<47, 114, 49, 63, 97>>
S_r1_slash_query == <<47, 114, 49, 47, 63, 97>>
S_login == <<47, 108, 111, 103, 105, 110>>
S_Login_query == <<47, 76, 111, 103, 105, 110, 63, 97>>
S_other == <<47, 120>>

\* str.split("?", 1)[0]
BeforeQuery(s) ==
    IF \E k \in 1..Len(s) : s[k] = 63
    THEN SubSeq(s, 1, (CHOOSE k \in 1..Len(s) : s[k] = 63 /\ \A j \in 1..(k - 1) : s[j] # 63) - 1)
    ELSE s

\* str.rstrip("/")
RECURSIVE RStripSlash(_)
RStripSlash(s) ==
    IF s # <<>> /\ s[Len(s)] = 47 THEN RStripSlash(SubSeq(s, 1, Len(s) - 1)) ELSE s

\* lines 93 and 99
NormalUrl(url) == RStripSlash(BeforeQuery(url))

\* sub in s
Contains(s, sub) ==
    \E k \in 1..(Len(s) - Len(sub) + 1) : SubSeq(s, k, k + Len(sub) - 1) = sub

\* lines 81-83
_looks_like_login(url) == Contains(Lower(url), S_login)

FinalUrls == {S_r1, S_r1_slash, S_r1_query, S_r1_slash_query, S_login, S_Login_query, S_other}

Histories == {<<>>, <<S_login>>, <<S_other>>}

Pages == {"metrics", "no_number", "no_blocks"}

Response(raises, status_ok, history, url, page) ==
    [raises |-> raises, status_ok |-> status_ok, history |-> history, url |-> url,
     page |-> page]

Responses ==
    {Response(TRUE, FALSE, <<>>, S_r1, "no_blocks"),
     Response(FALSE, FALSE, <<>>, S_r1, "no_blocks")}
    \cup { Response(FALSE, TRUE, h, u, p) : h \in Histories, u \in FinalUrls, p \in Pages }

Ended(m, outcome) == [m EXCEPT !.pc = "done", !.outcome = outcome]

Retry(m, error) == [m EXCEPT !.attempt = @ + 1, !.last_error = error]

\* an attempt that does not look for the login page
Attempt_no_login_check(m, resp) ==
    LET asked == [m EXCEPT !.requests = @ + 1, !.response = Some(resp)]
        final_url == NormalUrl(resp.url)
    IN  IF resp.raises THEN Ended(asked, "RequestException")
        ELSE IF ~resp.status_ok THEN Ended(asked, "HTTPError")
        ELSE IF final_url # NormalUrl(S_r1) THEN Retry(asked, "url")
        ELSE IF resp.page = "no_blocks" THEN Ended(asked, "RuntimeError")
        ELSE IF resp.page = "no_number" THEN Ended(asked, "ValueError")
        ELSE Ended(asked, "returned")

\* lines 97-128: one pass through the body of the loop
Attempt(m, resp) ==
    LET asked == [m EXCEPT !.requests = @ + 1, !.response = Some(resp)]
        final_url == NormalUrl(resp.url)
        login_redirect ==
            \/ \E k \in 1..Len(resp.history) : _looks_like_login(resp.history[k])
            \/ _looks_like_login(resp.url)
    IN  IF resp.raises THEN Ended(asked, "RequestException")
        ELSE IF ~resp.status_ok THEN Ended(asked, "HTTPError")
        ELSE IF login_redirect
        THEN Retry([asked EXCEPT !.home_requests = @ + 1], "login")
        ELSE IF final_url # NormalUrl(S_r1) THEN Retry(asked, "url")
        ELSE IF resp.page = "no_blocks" THEN Ended(asked, "RuntimeError")
        ELSE IF resp.page = "no_number" THEN Ended(asked, "ValueError")
        ELSE Ended(asked, "returned")

metrics_rest == << gather_vars, frames, loop, wizard, jar, monitor, goals >>

\* lines 86-94: the call
FetchCall ==
    /\ metrics.pc \in {"idle", "done"}
    /\ \E retries \in 0..DEFAULT_FETCH_RETRIES :
          metrics' = [NoMetrics EXCEPT !.pc = "loop", !.retries = retries]
    /\ UNCHANGED metrics_rest

\* lines 96-128: an attempt gets the response resp
FetchAttempt(resp) ==
    /\ metrics.pc = "loop"
    /\ metrics.attempt < metrics.retries
    /\ metrics' = Attempt(metrics, resp)
    /\ UNCHANGED metrics_rest

FetchAttempts == \E resp \in Responses : FetchAttempt(resp)

\* line 130: range(retries) is used up
FetchExhausted ==
    /\ metrics.pc = "loop"
    /\ metrics.attempt >= metrics.retries
    /\ metrics' = Ended(metrics, "RuntimeError")
    /\ UNCHANGED metrics_rest

InitMetrics ==
    /\ pc = "metrics"
    /\ site \in {[kind |-> "sparse", dead |-> {}]}
    /\ hash_seed = "forward"
    /\ rich_left = 0
    /\ queue = <<>>
    /\ visited = {}
    /\ request_count = 0
    /\ max_requests = 0
    /\ results_order = <<>>
    /\ results_map = NoMap
    /\ links = <<>>
    /\ results = <<>>
    /\ promos = <<>>
    /\ report = NoReport
    /\ seed_count = 0
    /\ issued = <<>>
    /\ skipped = {}
    /\ seen = <<>>
    /\ detail_failed = {}
    /\ progress_cb = "none"
    /\ calls = <<>>
    /\ progress_state = NoProgress
    /\ sent = {}
    /\ popped = 0
    /\ frames = NoFrames
    /\ loop = NoLoop
    /\ wizard = NoWizard
    /\ jar = NoJar
    /\ monitor = NoMonitor
    /\ metrics = NoMetrics
    /\ goals = NoGoals

NextMetrics ==
    \/ FetchCall
    \/ FetchAttempts
    \/ FetchExhausted

SpecMetrics == InitMetrics /\ [][NextMetrics]_vars

\* the final URLs that are the summary page, and the URLs of the login page
OnSummaryPage(url) == url \in {S_r1, S_r1_slash, S_r1_query, S_r1_slash_query}

LoginUrl(url) == url \in {S_login, S_Login_query}

\* C37: a call makes at most `retries` requests for the summary page; an
\* attempt whose request raises or gets an error status ends the call with
\* that error; one that was redirected through or to the login page, or that
\* ends on another URL than the summary page, is followed by the next
\* attempt; the first attempt that is neither ends the call, with the
\* metrics, or with an error when the blocks are missing or hold no number;
\* and a call whose attempts are used up raises RuntimeError.
C37_AtMostRetriesRequests ==
    /\ metrics.requests <= metrics.retries
    /\ metrics.requests \in {metrics.attempt, metrics.attempt + 1}
    /\ [][ /\ \A resp \in Responses :
                FetchAttempt(resp) =>
                  LET via_login ==
                          \/ LoginUrl(resp.url)
                          \/ \E k \in 1..Len(resp.history) : LoginUrl(resp.history[k])
                  IN  /\ metrics'.requests = metrics.requests + 1
                      /\ (resp.raises \/ ~resp.status_ok) =>
                            /\ metrics'.pc = "done"
                            /\ metrics'.outcome \in {"RequestException", "HTTPError"}
                      /\ (~resp.raises /\ resp.status_ok
                            /\ (via_login \/ ~OnSummaryPage(resp.url))) =>
                            /\ metrics'.pc = "loop"
                            /\ metrics'.attempt = metrics.attempt + 1
                      /\ (~resp.raises /\ resp.status_ok /\ ~via_login
                            /\ OnSummaryPage(resp.url)) =>
                            /\ metrics'.pc = "done"
                            /\ metrics'.outcome = "returned" <=> resp.page = "metrics"
                            /\ metrics'.outcome = "RuntimeError" <=> resp.page = "no_blocks"
           /\ FetchExhausted =>
                /\ metrics.requests = metrics.retries
                /\ metrics'.outcome = "RuntimeError"
                /\ metrics'.requests = metrics.requests ]_vars

C37_Witness ==
    /\ metrics.outcome = "returned"
    /\ metrics.retries = DEFAULT_FETCH_RETRIES
    /\ metrics.requests = DEFAULT_FETCH_RETRIES
    /\ metrics.home_requests = 1
    /\ metrics.last_error = "url"

(***************************************************************************)
(* income_goals.py: the goals file shared by the bot, which writes it with *)
(* upsert_income_goal, and the monitor, which reads it with                *)
(* load_income_goals at the start of an iteration.  A dict of goals gives  *)
(* each race its amount in hundredths or None; json.dump with indent=2     *)
(* writes it as an opening line, a line for each key in sorted order and a *)
(* closing line.  The two run in different processes, so a load can fall   *)
(* between any two steps of an upsert.                                     *)
(***************************************************************************)
GoalAmounts == {100, 250}

NoGoalsDict == [r \in MonitorRaces |-> None]

GoalDicts == [MonitorRaces -> {None} \cup {Some(a) : a \in GoalAmounts}]

JsonLine(key, value) == [key |-> key, value |-> value]

\* line 57: json.dump(raw, handle, indent=2, sort_keys=True)
DumpLines(raw) ==
    <<JsonLine("{", <<>>)>>
    \o (IF raw["1"] # None THEN <<JsonLine("1", DecimalStr(Val(raw["1"])))>> ELSE <<>>)
    \o (IF raw["2"] # None THEN <<JsonLine("2", DecimalStr(Val(raw["2"])))>> ELSE <<>>)
    \o <<JsonLine("}", <<>>)>>

\* json.load on the lines of the file: a document has its opening line, its
\* closing line and entries between them
IsDocument(lines) ==
    /\ Len(lines) >= 2
    /\ lines[1].key = "{"
    /\ lines[Len(lines)].key = "}"
    /\ \A k \in 2..(Len(lines) - 1) : lines[k].key \in MonitorRaces

\* lines 19-41: _load_raw_goals and the Decimal of each value
load_income_goals(file) ==
    IF file = None THEN NoGoalsDict
    ELSE IF ~IsDocument(Val(file)) THEN NoGoalsDict
    ELSE [r \in MonitorRaces |->
            IF \E k \in 1..Len(Val(file)) : Val(file)[k].key = r
            THEN Quantized((CHOOSE l \in {Val(file)[k] : k \in 1..Len(Val(file))} : l.key = r).value)
            ELSE None]

goals_rest == << gather_vars, frames, loop, wizard, jar, monitor, metrics >>

\* lines 49-55: the bot reads the file and sets or removes the goal of a race
UpsertBegin ==
    /\ goals.pc = "idle"
    /\ \E race_id \in MonitorRaces, amount \in {None} \cup {Some(a) : a \in GoalAmounts} :
          LET raw == [load_income_goals(goals.file) EXCEPT ![race_id] = amount]
          IN  goals' = [goals EXCEPT !.pc = "open", !.raw = raw, !.loaded = None,
                                     !.before = load_income_goals(goals.file),
                                     !.after = raw]
    /\ UNCHANGED goals_rest

\* line 56: open("w") creates the file or empties it
UpsertOpen ==
    /\ goals.pc = "open"
    /\ goals' = [goals EXCEPT !.pc = "dump", !.file = Some(<<>>),
                              !.unwritten = DumpLines(goals.raw)]
    /\ UNCHANGED goals_rest

\* line 57: the handle's buffer is flushed to the file before the end
UpsertFlush ==
    /\ goals.pc = "dump"
    /\ Len(goals.unwritten) > 1
    /\ goals' = [goals EXCEPT !.file = Some(Append(Val(@), Head(goals.unwritten))),
                              !.unwritten = Tail(@)]
    /\ UNCHANGED goals_rest

\* lines 56-58: the with block ends, the rest is written and the file closed
UpsertClose ==
    /\ goals.pc = "dump"
    /\ goals' = [goals EXCEPT !.pc = "idle", !.file = Some(Val(@) \o goals.unwritten),
                              !.unwritten = <<>>]
    /\ UNCHANGED goals_rest

\* race_income_watcher.py line 231: the monitor loads the goals
MonitorLoadsGoals ==
    /\ goals' = [goals EXCEPT !.loaded = Some(load_income_goals(goals.file))]
    /\ goals' # goals
    /\ UNCHANGED goals_rest

GoalFiles == {None} \cup { Some(DumpLines(d)) : d \in GoalDicts }

InitGoals ==
    /\ pc = "goals"
    /\ site \in {[kind |-> "sparse", dead |-> {}]}
    /\ hash_seed = "forward"
    /\ rich_left = 0
    /\ queue = <<>>
    /\ visited = {}
    /\ request_count = 0
    /\ max_requests = 0
    /\ results_order = <<>>
    /\ results_map = NoMap
    /\ links = <<>>
    /\ results = <<>>
    /\ promos = <<>>
    /\ report = NoReport
    /\ seed_count = 0
    /\ issued = <<>>
    /\ skipped = {}
    /\ seen = <<>>
    /\ detail_failed = {}
    /\ progress_cb = "none"
    /\ calls = <<>>
    /\ progress_state = NoProgress
    /\ sent = {}
    /\ popped = 0
    /\ frames = NoFrames
    /\ loop = NoLoop
    /\ wizard = NoWizard
    /\ jar = NoJar
    /\ monitor = NoMonitor
    /\ metrics = NoMetrics
    /\ goals \in { [NoGoals EXCEPT !.file = f, !.before = load_income_goals(f),
                                   !.after = load_income_goals(f)] : f \in GoalFiles }

NextGoals ==
    \/ UpsertBegin
    \/ UpsertOpen
    \/ UpsertFlush
    \/ UpsertClose
    \/ MonitorLoadsGoals

SpecGoals == InitGoals /\ [][NextGoals]_vars

\* C38: what a load returns is the goals as they were before the upsert
\* under way or the goals as they are after it.
C38_LoadSeesBeforeOrAfter ==
    goals.loaded # None => Val(goals.loaded) \in {goals.before, goals.after}

====
